---- MODULE Spec2Model ----
(***************************************************************************)
(* Easy-Translator: export of localizable metadata into a workbook and     *)
(* import of the edited workbook back into the repository.                 *)
(*                                                                         *)
(* The module holds four state machines over one set of variables:         *)
(*   Spec       the import run (importLanguageService.importTranslations)  *)
(*   SpecSweep  the language sweep of exportLanguageService.exportForms    *)
(*   SpecGroup  the row grouping of importEntities / importAttributes      *)
(*   SpecCells  the row projection of the export sheets                    *)
(* Each specification leaves the variables of the others at their initial  *)
(* value.                                                                  *)
(***************************************************************************)
EXTENDS Integers, Sequences, FiniteSets, TLC

VARIABLES
  \* ---- import run (importTranslations) ----
  wb,               \* workbook.worksheets: the sheets of the loaded file
  connected,        \* dvService.connection is not null
  pc,               \* position of importTranslations
  processedSheets,  \* let processedSheets
  units,            \* rows / map entries the current dispatch loop iterates
  unitIdx,          \* index of the next unit of the current loop
  processed,        \* let processed of the current import helper
  total,            \* let total / totalRows of the current import helper
  formUpdates,      \* Map formId -> {formId, formXml}, in insertion order
  dashboardUpdates, \* same, for dashboards
  siteMapUpdates,   \* Map siteMapId -> {siteMapId, sitemapXml}
  tasks,            \* site-map row callbacks suspended at await getSiteMapById
  calls,            \* history: repository calls issued by the run, in order
  patchLog,         \* history: patches applied to cache entries, in order
  rowLog,           \* history: rows of layout sheets the parser has reached
  faults,           \* number of repository calls that were rejected so far
  smProcessed,      \* let processedRows of each prepareSiteMapContent call
  vmExporting,      \* vm.exporting
  vmBatchProgress,  \* vm.batchProgress as <<processed, total>>
  \* ---- language sweep (exportForms) ----
  sw,               \* record: the state of one exportForms call
  \* ---- row grouping (importEntities / importAttributes) ----
  gr,               \* record: the state of one grouping import
  \* ---- export projection ----
  ex                \* record: the state of one sheet projection

importVars == <<wb, connected, pc, processedSheets, units, unitIdx, processed, total,
                formUpdates, dashboardUpdates, siteMapUpdates, tasks, calls,
                patchLog, rowLog, faults, smProcessed, vmExporting,
                vmBatchProgress>>
vars == <<importVars, sw, gr, ex>>

-----------------------------------------------------------------------------
(* Bounds of the model *)

\* sheets in a workbook
MaxSheets == 2
\* repository calls rejected in one run
MaxFaults == 2

-----------------------------------------------------------------------------
(* Cells, rows and sheets (ExcelJS collaborator)                           *)
(* A row is a sequence of cell values; a cell value is a string; Null is   *)
(* the value of a cell that was never written.                             *)

Null == "<null>"

\* row.getCell(col).value
GetCell(row, col) == IF col >= 1 /\ col <= Len(row) THEN row[col] ELSE Null

\* String(x ?? "")
StringOr(v) == IF v = Null THEN "" ELSE v

\* String.prototype.trim over the alphabet of the model: the only strings
\* with outer white space are the all-blank ones.
Trim(s) == IF s \in {" ", "  "} THEN "" ELSE s

\* Number(x) yields NaN for a text that is no number
NaN == 0 - 1

\* Number(x) over the alphabet of the model
NumberOf(s) ==
  CASE s = "1033" -> 1033
    [] s = "1036" -> 1036
    [] s = "1031" -> 1031
    [] s = "5"    -> 5
    [] s = "1"    -> 1
    [] s = "1000" -> 1000
    [] s \in {"", " ", "  "} -> 0
    [] OTHER -> NaN

\* stripBraces: "{GUID}" -> "GUID"
StripBraces(s) ==
  CASE s = "{f1}" -> "f1"
    [] s = "{f2}" -> "f2"
    [] s = "{d1}" -> "d1"
    [] s = "{v1}" -> "v1"
    [] s = "{v2}" -> "v2"
    [] s = "{}"   -> ""
    [] OTHER -> s

\* sheet.columnCount: the largest column any row uses
RECURSIVE MaxLen(_)
MaxLen(rows) ==
  IF rows = <<>> THEN 0
  ELSE LET m == MaxLen(Tail(rows)) IN IF Len(Head(rows)) > m THEN Len(Head(rows)) ELSE m

ColumnCount(sheet) == MaxLen(sheet.rows)
RowCount(sheet) == Len(sheet.rows)

\* getLanguageColumns(sheet, startCol)
RECURSIVE LanguageColumnsFrom(_, _, _)
LanguageColumnsFrom(header, col, last) ==
  IF col > last THEN <<>>
  ELSE LET val == GetCell(header, col)
           rest == LanguageColumnsFrom(header, col + 1, last)
       IN IF val # Null THEN <<NumberOf(val)>> \o rest ELSE rest

GetLanguageColumns(sheet, startCol) ==
  LanguageColumnsFrom(sheet.rows[1], startCol, ColumnCount(sheet))

\* readLabels(row, startCol, lcids): LCID -> text, for the non-empty cells
RECURSIVE ReadLabelsFrom(_, _, _, _)
ReadLabelsFrom(row, startCol, lcids, i) ==
  IF i > Len(lcids) THEN <<>>
  ELSE LET cell == GetCell(row, startCol + i - 1)
           rest == ReadLabelsFrom(row, startCol, lcids, i + 1)
       IN IF cell # Null /\ Trim(cell) # ""
          THEN <<[code |-> lcids[i], text |-> cell]>> \o rest
          ELSE rest

\* The assignments labels[lcid] = text of readLabels, in order
AssignmentsOf(row, startCol, lcids) == ReadLabelsFrom(row, startCol, lcids, 1)

\* A dictionary Record<number, string> is a function from its keys.
EmptyDict == [k \in {} |-> ""]

RECURSIVE Assign(_, _)
Assign(dict, assignments) ==
  IF assignments = <<>> THEN dict
  ELSE LET a == Head(assignments)
           d1 == [k \in (DOMAIN dict) \cup {a.code} |->
                    IF k = a.code THEN a.text ELSE dict[k]]
       IN Assign(d1, Tail(assignments))

ReadLabels(row, startCol, lcids) == Assign(EmptyDict, AssignmentsOf(row, startCol, lcids))

\* an assignment that keeps only the later row's dictionary
SpreadReplace(a, b) == b

\* { ...a, ...b }
Spread(a, b) == [k \in (DOMAIN a) \cup (DOMAIN b) |-> IF k \in DOMAIN b THEN b[k] ELSE a[k]]

\* Object.entries(dict): integer keys in ascending order
RECURSIVE Entries(_)
Entries(dict) ==
  IF DOMAIN dict = {} THEN <<>>
  ELSE LET k == CHOOSE x \in DOMAIN dict : \A y \in DOMAIN dict : x <= y
       IN <<[code |-> k, text |-> dict[k]]>> \o
          Entries([j \in (DOMAIN dict) \ {k} |-> dict[j]])

\* The language start detection of importFormNames / prepareFormContent /
\* prepareSiteMapContent: first header column whose value is a number > 1000
RECURSIVE FirstLanguageColumn(_, _, _, _)
FirstLanguageColumn(header, col, last, default) ==
  IF col > last THEN default
  ELSE LET num == NumberOf(StringOr(GetCell(header, col)))
       IN IF num # NaN /\ num > 1000 THEN col
          ELSE FirstLanguageColumn(header, col + 1, last, default)

DetectLangStartCol(sheet, default) ==
  FirstLanguageColumn(sheet.rows[1], 1, ColumnCount(sheet), default)

-----------------------------------------------------------------------------
(* Layout documents (DOMParser / XMLSerializer collaborator)               *)
(* A document is the sequence of its elements in document order; each      *)
(* element names its parent (0 for the document element). The caption      *)
(* children of a caption container are its caps, in order.                 *)

Node(tag, id, name, parent, caps) ==
  [tag |-> tag, id |-> id, name |-> name, parent |-> parent, caps |-> caps]

RECURSIVE IsAncestor(_, _, _)
IsAncestor(doc, a, j) ==
  IF j = 0 \/ doc[j].parent = 0 THEN FALSE
  ELSE doc[j].parent = a \/ IsAncestor(doc, a, doc[j].parent)

\* document.getElementsByTagName(tag): indexes in document order
ElementsByTagName(doc, tag) == {i \in 1..Len(doc) : doc[i].tag = tag}

Min(S) == CHOOSE x \in S : \A y \in S : x <= y
Max(S) == CHOOSE x \in S : \A y \in S : x >= y

\* element.querySelector(tag): first DESCENDANT of e with that tag, or 0
QuerySelector(doc, e, tag) ==
  LET found == {j \in 1..Len(doc) : doc[j].tag = tag /\ IsAncestor(doc, e, j)}
  IN IF found = {} THEN 0 ELSE Min(found)

\* element.querySelector(":scope > tag"): first CHILD of e with that tag, or 0
QuerySelectorChild(doc, e, tag) ==
  LET found == {j \in 1..Len(doc) : doc[j].tag = tag /\ doc[j].parent = e}
  IN IF found = {} THEN 0 ELSE Min(found)

\* index of the last element of the subtree of e
SubtreeEnd(doc, e) == Max({e} \cup {j \in 1..Len(doc) : IsAncestor(doc, e, j)})

\* The document with a new element put at index pos
InsertAt(doc, pos, node) ==
  LET shift(n) == [n EXCEPT !.parent = IF n.parent >= pos THEN n.parent + 1 ELSE n.parent]
  IN [i \in 1..(Len(doc) + 1) |->
        IF i < pos THEN shift(doc[i])
        ELSE IF i = pos THEN node
        ELSE shift(doc[i - 1])]

-----------------------------------------------------------------------------
(* Layout patcher (importLanguageService)                                  *)

\* prepareFormContent: tag of the element a content type names
FormTagName(contentType) ==
  IF contentType = "tab" THEN "tab" ELSE IF contentType = "section" THEN "section" ELSE "cell"

\* prepareFormContent: the element the row names, 0 when there is none.
\* One pass over the elements of the tag; the first whose id or name
\* attribute equals elementId.
FindFormElement(doc, contentType, elementId) ==
  LET hits == {i \in ElementsByTagName(doc, FormTagName(contentType)) :
                 doc[i].id = elementId \/ doc[i].name = elementId}
  IN IF hits = {} THEN 0 ELSE Min(hits)

\* prepareFormContent: the caption container the patch rewrites, 0 when it
\* has to be created
FormLabelsOf(doc, e) == QuerySelector(doc, e, "labels")

\* prepareFormContent: update or create the labels element of e, clear it and
\* add one label per entry of the dictionary; result of the serialization
PatchFormElement(doc, e, labels) ==
  LET have == FormLabelsOf(doc, e)
      doc1 == IF have = 0 THEN InsertAt(doc, e + 1, Node("labels", "", "", e, <<>>)) ELSE doc
      c    == IF have = 0 THEN e + 1 ELSE have
  IN [doc1 EXCEPT ![c].caps = Entries(labels)]

\* prepareSiteMapContent: the element with that Id attribute, 0 when none
FindSiteMapElement(doc, elementType, elementId) ==
  LET hits == {i \in ElementsByTagName(doc, elementType) : doc[i].id = elementId}
  IN IF hits = {} THEN 0 ELSE Min(hits)

\* a routing that sends every qualifier to the Titles container
ContainerNameTitlesOnly(type) == "Titles"

\* prepareSiteMapContent: Titles or Descriptions
ContainerName(type) == IF type = "Description" THEN "Descriptions" ELSE "Titles"

\* prepareSiteMapContent: rewrite (or append) the container of e chosen by type
PatchSiteMapElement(doc, e, type, labels) ==
  LET have == QuerySelectorChild(doc, e, ContainerName(type))
      pos  == SubtreeEnd(doc, e) + 1
      doc1 == IF have = 0 THEN InsertAt(doc, pos, Node(ContainerName(type), "", "", e, <<>>)) ELSE doc
      c    == IF have = 0 THEN pos ELSE have
  IN [doc1 EXCEPT ![c].caps = Entries(labels)]

-----------------------------------------------------------------------------
(* Repository content the runs start from (Dataverse collaborator)         *)

Cap(code, text) == [code |-> code, text |-> text]

\* form f1: tab t1 carries no labels of its own, its section and cell do
FormF1 ==
  << Node("form", "", "", 0, <<>>),
     Node("tab", "t1", "general", 1, <<>>),
     Node("section", "s1", "details", 2, <<>>),
     Node("labels", "", "", 3, <<Cap(1033, "Details")>>),
     Node("cell", "c1", "", 3, <<>>),
     Node("labels", "", "", 5, <<Cap(1033, "Name")>>),
     Node("tab", "t2", "admin", 1, <<>>),
     Node("labels", "", "", 7, <<Cap(1033, "Admin")>>) >>

\* form f2: every element carries its own labels as first child
FormF2 ==
  << Node("form", "", "", 0, <<>>),
     Node("tab", "t1", "general", 1, <<>>),
     Node("labels", "", "", 2, <<Cap(1033, "General")>>),
     Node("section", "s1", "details", 2, <<>>),
     Node("labels", "", "", 4, <<Cap(1033, "Details")>>) >>

\* dashboard d1
DashboardD1 ==
  << Node("form", "", "", 0, <<>>),
     Node("tab", "t1", "overview", 1, <<>>),
     Node("labels", "", "", 2, <<Cap(1033, "Overview")>>) >>

\* site map m1: area a1 with titles, its group g1 with titles, area a2 bare
SiteMapM1 ==
  << Node("SiteMap", "", "", 0, <<>>),
     Node("Area", "a1", "", 1, <<>>),
     Node("Titles", "", "", 2, <<Cap(1033, "Sales")>>),
     Node("Group", "g1", "", 2, <<>>),
     Node("Titles", "", "", 4, <<Cap(1033, "Customers")>>),
     Node("Area", "a2", "", 1, <<>>) >>

\* what a string that is no well-formed XML parses to: no element matches
EmptyDoc == << >>

FormIds == {"f1", "f2"}
DashboardIds == {"d1"}
SiteMapIds == {"m1"}

\* the formxml / sitemapxml the repository held when the run started
InitialXml(id) ==
  CASE id = "f1" -> FormF1
    [] id = "f2" -> FormF2
    [] id = "d1" -> DashboardD1
    [] id = "m1" -> SiteMapM1
    [] OTHER -> EmptyDoc

\* the record exists in the repository
Exists(id) == id \in FormIds \cup DashboardIds \cup SiteMapIds

-----------------------------------------------------------------------------
(* Insertion-ordered maps (JavaScript Map): sequences of entries with a key *)

MapHas(map, key) == \E i \in 1..Len(map) : map[i].key = key
MapIndex(map, key) == CHOOSE i \in 1..Len(map) : map[i].key = key
MapGet(map, key) == map[MapIndex(map, key)]
\* map.set(key, entry): replaces in place, or appends
MapSet(map, entry) ==
  IF MapHas(map, entry.key) THEN [map EXCEPT ![MapIndex(map, entry.key)] = entry]
  ELSE Append(map, entry)

-----------------------------------------------------------------------------
(* Row grouping parser (importEntities, importAttributes, importViews)     *)

FreshEntry(key, entity, attribute) ==
  [key |-> key, entityLogicalName |-> entity, attributeLogicalName |-> attribute,
   displayName |-> EmptyDict, displayCollectionName |-> EmptyDict,
   description |-> EmptyDict]

\* importEntities: the eachRow callback for one data row
EntityRow(map, row, lcids) ==
  LET name == Trim(StringOr(GetCell(row, 2)))
      type == Trim(StringOr(GetCell(row, 3)))
      map1 == IF MapHas(map, name) THEN map ELSE Append(map, FreshEntry(name, name, ""))
      i == MapIndex(map1, name)
      labels == ReadLabels(row, 4, lcids)
  IN IF name = "" \/ type = "" THEN map
     ELSE IF type = "DisplayName"
       THEN [map1 EXCEPT ![i].displayName = Spread(@, labels)]
     ELSE IF type = "DisplayCollectionName"
       THEN [map1 EXCEPT ![i].displayCollectionName = Spread(@, labels)]
     ELSE IF type = "Description"
       THEN [map1 EXCEPT ![i].description = Spread(@, labels)]
     ELSE map1

\* importAttributes: the eachRow callback for one data row
AttributeRow(map, row, lcids) ==
  LET entity == Trim(StringOr(GetCell(row, 2)))
      attribute == Trim(StringOr(GetCell(row, 3)))
      type == Trim(StringOr(GetCell(row, 4)))
      key == entity \o "|" \o attribute
      map1 == IF MapHas(map, key) THEN map ELSE Append(map, FreshEntry(key, entity, attribute))
      i == MapIndex(map1, key)
      labels == ReadLabels(row, 5, lcids)
  IN IF entity = "" \/ attribute = "" \/ type = "" THEN map
     ELSE IF type = "DisplayName"
       THEN [map1 EXCEPT ![i].displayName = Spread(@, labels)]
     ELSE IF type = "Description"
       THEN [map1 EXCEPT ![i].description = Spread(@, labels)]
     ELSE map1

\* one grouping step, by sheet name
GroupRow(name, map, row, lcids) ==
  IF name = "Entities" THEN EntityRow(map, row, lcids) ELSE AttributeRow(map, row, lcids)

\* first language column the grouping imports assume
GroupStartCol(name) == IF name = "Entities" THEN 4 ELSE 5

RECURSIVE GroupRowsFrom(_, _, _, _, _)
GroupRowsFrom(name, rows, i, lcids, map) ==
  IF i > Len(rows) THEN map
  ELSE GroupRowsFrom(name, rows, i + 1, lcids, GroupRow(name, map, rows[i], lcids))

\* sheet.eachRow of importEntities / importAttributes: the finished map
GroupSheet(sheet) ==
  GroupRowsFrom(sheet.name, sheet.rows, 2,
                GetLanguageColumns(sheet, GroupStartCol(sheet.name)), <<>>)

\* null passed in place of a dictionary: a dictionary no row can produce
NullArg == [k \in {0} |-> Null]

\* Object.keys(d).length > 0 ? d : null
OrNull(d) == IF DOMAIN d # {} THEN d ELSE NullArg

\* the repository call importEntities / importAttributes issues for an entry
GroupUnit(name, e) ==
  [op |-> IF name = "Entities" THEN "updateEntityMetadata" ELSE "updateAttributeMetadata",
   id |-> e.key,
   arg |-> [entityLogicalName |-> e.entityLogicalName,
            attributeLogicalName |-> e.attributeLogicalName,
            displayName |-> OrNull(e.displayName),
            displayCollectionName |-> OrNull(e.displayCollectionName),
            description |-> OrNull(e.description)]]

GroupUnits(sheet) ==
  LET map == GroupSheet(sheet) IN [i \in 1..Len(map) |-> GroupUnit(sheet.name, map[i])]

\* importViews: the rows array
RECURSIVE ViewRowsFrom(_, _, _)
ViewRowsFrom(rows, i, lcids) ==
  IF i > Len(rows) THEN <<>>
  ELSE LET viewId == StripBraces(StringOr(GetCell(rows[i], 1)))
           type == Trim(StringOr(GetCell(rows[i], 4)))
           labels == ReadLabels(rows[i], 5, lcids)
           rest == ViewRowsFrom(rows, i + 1, lcids)
       IN IF viewId # "" /\ DOMAIN labels # {}
          THEN <<[op |-> "setLocLabels", id |-> viewId,
                  arg |-> [attrName |-> IF type = "Description" THEN "description" ELSE "name",
                           labels |-> labels]]>> \o rest
          ELSE rest

ViewUnits(sheet) == ViewRowsFrom(sheet.rows, 2, GetLanguageColumns(sheet, 5))

-----------------------------------------------------------------------------
(* Workbooks the import runs are given                                     *)

Sheet(name, rows, bad) == [name |-> name, rows |-> rows, bad |-> bad]

EntitiesHeader == <<"Entity Id", "Entity Logical Name", "Type", "1033", "1036">>
SheetEntities ==
  Sheet("Entities",
        << EntitiesHeader,
           <<"{e1}", "account", "DisplayName", "Client", "Compte">>,
           <<"{e1}", "account", "Description", "A client", "">>,
           <<"{e2}", "contact", "DisplayName", "Person">> >>, FALSE)

ViewsHeader == <<"View Id", "Entity Logical Name", "View Type", "Type", "1033">>
ViewsRows ==
  << ViewsHeader,
     <<"{v1}", "account", "Public View", "Label", "Active">>,
     <<"{v2}", "account", "Public View", "Label", "All">> >>
SheetViews == Sheet("Views", ViewsRows, FALSE)
\* a Views sheet whose rows the reader cannot iterate (eachRow throws)
SheetViewsBad == Sheet("Views", ViewsRows, TRUE)

TabsHeader ==
  <<"Tab Id", "Entity Logical Name", "Form Name", "Form Unique Id", "Form Id", "1033", "1036">>
\* second row lacks its Form Id
SheetFormsTabsA ==
  Sheet("Forms Tabs",
        << TabsHeader,
           <<"t1", "account", "Main", "{u1}", "{f1}", "Allgemein", "">>,
           <<"t2", "account", "Main", "{u1}", "{}", "Verwaltung", "">>,
           <<"t2", "account", "Main", "{u1}", "{f1}", "Verwaltung", "">> >>, FALSE)
\* first row names a tab the form does not hold
SheetFormsTabsB ==
  Sheet("Forms Tabs",
        << TabsHeader,
           <<"t9", "account", "Main", "{u2}", "{f2}", "Fehlt", "">>,
           <<"t1", "account", "Main", "{u2}", "{f2}", "Allgemein", "General">> >>, FALSE)
\* no row is skipped
SheetFormsTabsC ==
  Sheet("Forms Tabs",
        << TabsHeader,
           <<"t1", "account", "Main", "{u1}", "{f1}", "Allgemein", "">>,
           <<"t2", "account", "Main", "{u1}", "{f1}", "Verwaltung", "">> >>, FALSE)
\* first row carries no translation
SheetFormsTabsD ==
  Sheet("Forms Tabs",
        << TabsHeader,
           <<"t1", "account", "Main", "{u2}", "{f2}", " ", "">>,
           <<"t1", "account", "Main", "{u2}", "{f2}", "Allgemein", "">> >>, FALSE)

SectionsHeader ==
  <<"Section Id", "Entity Logical Name", "Form Name", "Form Unique Id", "Form Id",
    "Tab Name", "1033", "1036">>
SheetFormsSections ==
  Sheet("Forms Sections",
        << SectionsHeader,
           <<"s1", "account", "Main", "{u1}", "{f1}", "general", "Einzelheiten", "">> >>, FALSE)

FieldsHeader ==
  <<"Label Id", "Entity Logical Name", "Form Name", "Form Unique Id", "Form Id",
    "Tab Name", "Section Name", "Attribute", "Display Name", "1033">>
SheetFormsFields ==
  Sheet("Forms Fields",
        << FieldsHeader,
           <<"c1", "account", "Main", "{u1}", "{f1}", "general", "details", "name",
             "Name", "Bezeichnung">> >>, FALSE)

SheetDashboardsTabs ==
  Sheet("Dashboards Tabs",
        << TabsHeader,
           <<"t1", "", "Sales", "{u3}", "{d1}", "Uebersicht", "">> >>, FALSE)

AreasHeader == <<"SiteMap Name", "SiteMap Id", "Area Id", "Type", "1033", "1036">>
SheetSiteMapAreas ==
  Sheet("SiteMap Areas",
        << AreasHeader,
           <<"Main", "m1", "a1", "Title", "Vertrieb", "">>,
           <<"Main", "m1", "a2", "Title", "Dienst", "">> >>, FALSE)

GroupsHeader == <<"SiteMap Name", "SiteMap Id", "Area Id", "Group Id", "Type", "1033", "1036">>
SheetSiteMapGroups ==
  Sheet("SiteMap Groups",
        << GroupsHeader,
           <<"Main", "m1", "a1", "g1", "Description", "Kunden", "">> >>, FALSE)

SheetNotes == Sheet("Notes", << <<"free text">> >>, FALSE)

SheetMenu ==
  { SheetEntities, SheetViews, SheetViewsBad, SheetFormsTabsA, SheetFormsTabsB,
    SheetFormsTabsC, SheetFormsTabsD, SheetFormsSections, SheetFormsFields,
    SheetDashboardsTabs, SheetSiteMapAreas, SheetSiteMapGroups, SheetNotes }

\* a workbook holds no two sheets of the same name
Workbooks ==
  { w \in UNION {[1..n -> SheetMenu] : n \in 0..MaxSheets} :
      \A i, j \in DOMAIN w : i # j => w[i].name # w[j].name }

-----------------------------------------------------------------------------
(* The import run: importLanguageService.importTranslations                *)
(* Every action is the code between two awaits. A call whose answer the    *)
(* run awaits is logged "pending" when issued and settled by the next      *)
(* action; site-map row callbacks settle only while the run awaits the     *)
(* repository or after it has ended.                                       *)

Call(op, id, arg, status) == [op |-> op, id |-> id, arg |-> arg, status |-> status]

NoProgress == <<0, 1>>

UnitSheetNames == {"Entities", "Attributes", "Views"}
FormSheetNames == {"Forms Tabs", "Forms Sections", "Forms Fields",
                   "Dashboards Tabs", "Dashboards Sections", "Dashboards Fields"}
SiteMapSheetNames == {"SiteMap Areas", "SiteMap Groups", "SiteMap SubAreas"}

\* the switch of importTranslations: third argument of prepareFormContent
ContentTypeOf(name) ==
  IF name \in {"Forms Tabs", "Dashboards Tabs"} THEN "tab"
  ELSE IF name \in {"Forms Sections", "Dashboards Sections"} THEN "section"
  ELSE "field"

\* the switch of importTranslations: dashboardUpdates or formUpdates
IsDashboardSheet(name) ==
  name \in {"Dashboards Tabs", "Dashboards Sections", "Dashboards Fields"}

\* the switch of importTranslations: third argument of prepareSiteMapContent
ElementTypeOf(name) ==
  IF name = "SiteMap Areas" THEN "Area"
  ELSE IF name = "SiteMap Groups" THEN "Group" ELSE "SubArea"

\* prepareSiteMapContent: elementIdCol
ElementIdCol(elementType) ==
  IF elementType = "Area" THEN 3 ELSE IF elementType = "Group" THEN 4 ELSE 5

\* prepareFormContent: formIdCol
FormIdCol(contentType) == 5

\* dvService wrappers that catch the rejection of the repository themselves
Swallows(op) == op \in {"updateEntityMetadata", "updateAttributeMetadata", "updateOptionValue"}

\* the units of the dispatch loop of a sheet
UnitsOf(sheet) ==
  IF sheet.name = "Views" THEN ViewUnits(sheet) ELSE GroupUnits(sheet)

CurSheet == wb[processedSheets + 1]

\* the last call of the history, settled
Settle(status) == [calls EXCEPT ![Len(calls)].status = status]

\* the xml the repository holds for a record now
RepoXml(id) ==
  LET written == {i \in 1..Len(calls) :
                    /\ calls[i].op \in {"updateForm", "updateSiteMap"}
                    /\ calls[i].id = id
                    /\ calls[i].status = "ok"}
  IN IF written = {} THEN InitialXml(id) ELSE calls[Max(written)].arg

WaitPcs == {"unitsWait", "rowWait", "flushWait_forms", "flushWait_dash", "flushWait_sm",
            "publishWait"}

Init ==
  /\ wb \in Workbooks
  /\ connected \in BOOLEAN
  /\ pc = "idle"
  /\ processedSheets = 0
  /\ units = <<>>
  /\ unitIdx = 0
  /\ processed = 0
  /\ total = 0
  /\ formUpdates = <<>>
  /\ dashboardUpdates = <<>>
  /\ siteMapUpdates = <<>>
  /\ tasks = {}
  /\ calls = <<>>
  /\ patchLog = <<>>
  /\ rowLog = <<>>
  /\ faults = 0
  /\ smProcessed = [i \in 1..Len(wb) |-> 0]
  /\ vmExporting = FALSE
  /\ vmBatchProgress = NoProgress
  /\ sw = [pc |-> "off"]
  /\ gr = [pc |-> "off"]
  /\ ex = [pc |-> "off"]

others == <<sw, gr, ex>>

\* importTranslations up to await file.arrayBuffer()
StartImport ==
  /\ pc = "idle"
  /\ pc' = "load"
  /\ vmExporting' = TRUE
  /\ vmBatchProgress' = NoProgress
  /\ UNCHANGED <<wb, connected, processedSheets, units, unitIdx, processed, total,
                 formUpdates, dashboardUpdates, siteMapUpdates, tasks, calls, patchLog,
                 rowLog, faults, smProcessed, others>>

\* the outer finally of importTranslations
Finally ==
  /\ pc' = "done"
  /\ vmExporting' = FALSE
  /\ vmBatchProgress' = NoProgress

\* workbook.xlsx.load resolves
LoadWorkbook ==
  /\ pc = "load"
  /\ pc' = "sheet"
  /\ UNCHANGED <<wb, connected, processedSheets, units, unitIdx, processed, total,
                 formUpdates, dashboardUpdates, siteMapUpdates, tasks, calls, patchLog,
                 rowLog, faults, smProcessed, vmExporting, vmBatchProgress, others>>

\* workbook.xlsx.load rejects: outer catch, finally
LoadFails ==
  /\ pc = "load"
  /\ Finally
  /\ UNCHANGED <<wb, connected, processedSheets, units, unitIdx, processed, total,
                 formUpdates, dashboardUpdates, siteMapUpdates, tasks, calls, patchLog,
                 rowLog, faults, smProcessed, others>>

AtSheet == pc = "sheet" /\ processedSheets < Len(wb)

\* a sheet whose reading throws: the catch and finally of the loop body
ThrowingSheet ==
  /\ AtSheet
  /\ CurSheet.bad
  /\ processedSheets' = processedSheets + 1
  /\ UNCHANGED <<wb, connected, pc, units, unitIdx, processed, total,
                 formUpdates, dashboardUpdates, siteMapUpdates, tasks, calls, patchLog,
                 rowLog, faults, smProcessed, vmExporting, vmBatchProgress, others>>

\* default: of the switch
UnknownSheet ==
  /\ AtSheet
  /\ ~CurSheet.bad
  /\ CurSheet.name \notin UnitSheetNames \cup FormSheetNames \cup SiteMapSheetNames
  /\ processedSheets' = processedSheets + 1
  /\ UNCHANGED <<wb, connected, pc, units, unitIdx, processed, total,
                 formUpdates, dashboardUpdates, siteMapUpdates, tasks, calls, patchLog,
                 rowLog, faults, smProcessed, vmExporting, vmBatchProgress, others>>

\* importEntities / importAttributes / importViews up to their dispatch loop
UnitSheetStart ==
  /\ AtSheet
  /\ ~CurSheet.bad
  /\ CurSheet.name \in UnitSheetNames
  /\ units' = UnitsOf(CurSheet)
  /\ total' = Len(UnitsOf(CurSheet))
  /\ unitIdx' = 1
  /\ processed' = 0
  /\ pc' = "units"
  /\ UNCHANGED <<wb, connected, processedSheets,
                 formUpdates, dashboardUpdates, siteMapUpdates, tasks, calls, patchLog,
                 rowLog, faults, smProcessed, vmExporting, vmBatchProgress, others>>

\* a dispatch loop whose try/catch wraps the loop instead of its body: a
\* failed unit ends the loop
AfterUnitUncaught(outcome) ==
  IF outcome = "ok" THEN unitIdx + 1 ELSE Len(units) + 1

\* the try/catch inside the dispatch loop: whatever the outcome of the
\* awaited call, the loop goes on with the next unit
AfterUnit(outcome) == unitIdx + 1

\* the dispatch loop issues the call of the next unit
UnitIssue ==
  /\ pc = "units"
  /\ unitIdx <= Len(units)
  /\ LET u == units[unitIdx] IN
       IF connected
       THEN /\ calls' = Append(calls, Call(u.op, u.id, u.arg, "pending"))
            /\ pc' = "unitsWait"
            /\ UNCHANGED unitIdx
       ELSE \* the wrapper throws before it reaches the repository: catch
            /\ calls' = Append(calls, Call(u.op, u.id, u.arg, "refused"))
            /\ unitIdx' = AfterUnit("refused")
            /\ UNCHANGED pc
  /\ UNCHANGED <<wb, connected, processedSheets, units, processed, total,
                 formUpdates, dashboardUpdates, siteMapUpdates, tasks, patchLog,
                 rowLog, faults, smProcessed, vmExporting, vmBatchProgress, others>>

\* the repository answers the call of a unit
UnitDone ==
  /\ pc = "unitsWait"
  /\ pc' = "units"
  /\ \/ /\ calls' = Settle("ok")
        /\ processed' = processed + 1
        /\ vmBatchProgress' = <<processed + 1, total>>
        /\ unitIdx' = AfterUnit("ok")
        /\ UNCHANGED faults
     \/ /\ faults < MaxFaults
        /\ faults' = faults + 1
        /\ calls' = Settle("rejected")
        /\ IF Swallows(calls[Len(calls)].op)
           THEN /\ processed' = processed + 1
                /\ vmBatchProgress' = <<processed + 1, total>>
                /\ unitIdx' = AfterUnit("ok")
           ELSE /\ unitIdx' = AfterUnit("rejected")
                /\ UNCHANGED <<processed, vmBatchProgress>>
  /\ UNCHANGED <<wb, connected, processedSheets, units, total,
                 formUpdates, dashboardUpdates, siteMapUpdates, tasks, patchLog,
                 rowLog, smProcessed, vmExporting, others>>

\* end of an import helper: progress reset, then the finally of the loop body
UnitsEnd ==
  /\ pc = "units"
  /\ unitIdx > Len(units)
  /\ vmBatchProgress' = NoProgress
  /\ processedSheets' = processedSheets + 1
  /\ pc' = "sheet"
  /\ UNCHANGED <<wb, connected, units, unitIdx, processed, total,
                 formUpdates, dashboardUpdates, siteMapUpdates, tasks, calls, patchLog,
                 rowLog, faults, smProcessed, vmExporting, others>>

-----------------------------------------------------------------------------
(* prepareFormContent                                                      *)

PatchRec(kind, doc, tag, elementId, type, labels, sheet, row) ==
  [kind |-> kind, doc |-> doc, tag |-> tag, elementId |-> elementId, type |-> type,
   labels |-> labels, sheet |-> sheet, row |-> row]

\* the cells prepareFormContent reads of data row i
FormRowData(sheet, i) ==
  LET row == sheet.rows[i]
      ct == ContentTypeOf(sheet.name)
      start == DetectLangStartCol(sheet, 6)
  IN [elementId |-> Trim(StringOr(GetCell(row, 1))),
      formId |-> StripBraces(StringOr(GetCell(row, FormIdCol(ct)))),
      labels |-> ReadLabels(row, start, GetLanguageColumns(sheet, start)),
      contentType |-> ct]

FormCache == IF IsDashboardSheet(CurSheet.name) THEN dashboardUpdates ELSE formUpdates

SetFormCache(c) ==
  IF IsDashboardSheet(CurSheet.name)
  THEN dashboardUpdates' = c /\ UNCHANGED formUpdates
  ELSE formUpdates' = c /\ UNCHANGED dashboardUpdates

\* "return" inside the row loop of prepareFormContent: the function ends,
\* then the finally of the sheet loop
ReturnFromSheet ==
  /\ pc' = "sheet"
  /\ processedSheets' = processedSheets + 1

\* prepareFormContent from "const formData = formUpdates.get(formId)" to the
\* end of the loop body, with the cache as it is then
PatchFromCache(cache, r) ==
  LET doc == MapGet(cache, r.formId).xml
      e == FindFormElement(doc, r.contentType, r.elementId)
      kind == IF IsDashboardSheet(CurSheet.name) THEN "dashboard" ELSE "form"
  IN IF e = 0
     THEN /\ SetFormCache(cache)
          /\ ReturnFromSheet
          /\ UNCHANGED <<patchLog, processed, vmBatchProgress, unitIdx>>
     ELSE /\ SetFormCache(MapSet(cache, [key |-> r.formId,
                                         xml |-> PatchFormElement(doc, e, r.labels)]))
          /\ patchLog' = Append(patchLog,
                                PatchRec(kind, r.formId, FormTagName(r.contentType),
                                         r.elementId, "Label", r.labels,
                                         processedSheets + 1, unitIdx))
          /\ processed' = processed + 1
          /\ vmBatchProgress' = <<processed + 1, total>>
          /\ unitIdx' = unitIdx + 1
          /\ pc' = "rows"
          /\ UNCHANGED processedSheets

\* prepareFormContent up to its row loop
FormSheetStart ==
  /\ AtSheet
  /\ ~CurSheet.bad
  /\ CurSheet.name \in FormSheetNames
  /\ unitIdx' = 2
  /\ processed' = 0
  /\ total' = RowCount(CurSheet) - 1
  /\ pc' = "rows"
  /\ UNCHANGED <<wb, connected, processedSheets, units,
                 formUpdates, dashboardUpdates, siteMapUpdates, tasks, calls, patchLog,
                 rowLog, faults, smProcessed, vmExporting, vmBatchProgress, others>>

\* one pass of the row loop of prepareFormContent, up to await getFormById
FormRow ==
  /\ pc = "rows"
  /\ unitIdx <= RowCount(CurSheet)
  /\ rowLog' = Append(rowLog, <<processedSheets + 1, unitIdx>>)
  /\ LET r == FormRowData(CurSheet, unitIdx) IN
       IF r.formId = "" \/ r.elementId = "" \/ DOMAIN r.labels = {}
       THEN /\ ReturnFromSheet
            /\ UNCHANGED <<formUpdates, dashboardUpdates, calls, patchLog, processed,
                           vmBatchProgress, unitIdx>>
       ELSE IF ~MapHas(FormCache, r.formId)
       THEN IF connected
            THEN /\ calls' = Append(calls, Call("getFormById", r.formId, <<>>, "pending"))
                 /\ pc' = "rowWait"
                 /\ UNCHANGED <<processedSheets, formUpdates, dashboardUpdates, patchLog,
                                processed, vmBatchProgress, unitIdx>>
            ELSE /\ calls' = Append(calls, Call("getFormById", r.formId, <<>>, "refused"))
                 /\ ReturnFromSheet
                 /\ UNCHANGED <<formUpdates, dashboardUpdates, patchLog, processed,
                                vmBatchProgress, unitIdx>>
       ELSE /\ PatchFromCache(FormCache, r)
            /\ UNCHANGED calls
  /\ UNCHANGED <<wb, connected, units, total, siteMapUpdates, tasks, faults,
                 smProcessed, vmExporting, others>>

\* the repository answers getFormById
RowFetchDone ==
  /\ pc = "rowWait"
  /\ LET r == FormRowData(CurSheet, unitIdx) IN
       \/ /\ Exists(r.formId)
          /\ calls' = Settle("ok")
          /\ PatchFromCache(MapSet(FormCache, [key |-> r.formId, xml |-> RepoXml(r.formId)]), r)
          /\ UNCHANGED faults
       \/ /\ ~Exists(r.formId) \/ faults < MaxFaults
          /\ faults' = IF Exists(r.formId) THEN faults + 1 ELSE faults
          /\ calls' = Settle("rejected")
          /\ ReturnFromSheet
          /\ UNCHANGED <<formUpdates, dashboardUpdates, patchLog, processed,
                         vmBatchProgress, unitIdx>>
  /\ UNCHANGED <<wb, connected, units, total, siteMapUpdates, tasks, rowLog,
                 smProcessed, vmExporting, others>>

\* the row loop of prepareFormContent ends: progress reset, finally of the sheet loop
RowsEnd ==
  /\ pc = "rows"
  /\ unitIdx > RowCount(CurSheet)
  /\ vmBatchProgress' = NoProgress
  /\ processedSheets' = processedSheets + 1
  /\ pc' = "sheet"
  /\ UNCHANGED <<wb, connected, units, unitIdx, processed, total,
                 formUpdates, dashboardUpdates, siteMapUpdates, tasks, calls, patchLog,
                 rowLog, faults, smProcessed, vmExporting, others>>

-----------------------------------------------------------------------------
(* prepareSiteMapContent: sheet.eachRow(async (row) => ...) is not awaited *)

\* the cells prepareSiteMapContent reads of data row i
SiteMapRowData(sheet, sIdx, i) ==
  LET row == sheet.rows[i]
      et == ElementTypeOf(sheet.name)
      start == DetectLangStartCol(sheet, 5)
  IN [sheet |-> sIdx, row |-> i,
      siteMapId |-> Trim(StringOr(GetCell(row, 2))),
      elementType |-> et,
      elementId |-> Trim(StringOr(GetCell(row, ElementIdCol(et)))),
      type |-> Trim(StringOr(GetCell(row, ElementIdCol(et) + 1))),
      labels |-> ReadLabels(row, start, GetLanguageColumns(sheet, start)),
      total |-> RowCount(sheet) - 1]

\* the row callback from "const smData = siteMapUpdates.get(siteMapId)" on;
\* acc holds the variables the callback writes
SiteMapPatch(acc, t) ==
  LET doc == MapGet(acc.cache, t.siteMapId).xml
      e == FindSiteMapElement(doc, t.elementType, t.elementId)
  IN IF e = 0 THEN acc
     ELSE [acc EXCEPT
             !.cache = MapSet(@, [key |-> t.siteMapId,
                                  xml |-> PatchSiteMapElement(doc, e, t.type, t.labels)]),
             !.patchLog = Append(@, PatchRec("sitemap", t.siteMapId, t.elementType,
                                             t.elementId, t.type, t.labels, t.sheet, t.row)),
             !.count = [@ EXCEPT ![t.sheet] = @ + 1],
             !.progress = <<acc.count[t.sheet] + 1, t.total>>]

\* the row callback up to its first await, or to its end when it has none
SiteMapRowSync(acc, t) ==
  LET acc1 == [acc EXCEPT !.rowLog = Append(@, <<t.sheet, t.row>>)]
  IN IF t.siteMapId = "" \/ t.elementId = "" \/ DOMAIN t.labels = {} THEN acc1
     ELSE IF ~MapHas(acc.cache, t.siteMapId)
       THEN IF connected
            THEN [acc1 EXCEPT
                    !.calls = Append(@, Call("getSiteMapById", t.siteMapId, <<>>, "pending")),
                    !.tasks = @ \cup {t}]
            ELSE [acc1 EXCEPT
                    !.calls = Append(@, Call("getSiteMapById", t.siteMapId, <<>>, "refused"))]
     ELSE SiteMapPatch(acc1, t)

RECURSIVE SiteMapRowsFrom(_, _, _, _)
SiteMapRowsFrom(sheet, sIdx, i, acc) ==
  IF i > RowCount(sheet) THEN acc
  ELSE SiteMapRowsFrom(sheet, sIdx, i + 1, SiteMapRowSync(acc, SiteMapRowData(sheet, sIdx, i)))

Acc == [cache |-> siteMapUpdates, tasks |-> tasks, calls |-> calls, patchLog |-> patchLog,
        rowLog |-> rowLog, count |-> smProcessed, progress |-> vmBatchProgress]

\* prepareSiteMapContent as a whole: every row callback runs to its first
\* await, the progress is reset, the function returns
SiteMapSheet ==
  /\ AtSheet
  /\ ~CurSheet.bad
  /\ CurSheet.name \in SiteMapSheetNames
  /\ LET acc == SiteMapRowsFrom(CurSheet, processedSheets + 1, 2, Acc) IN
       /\ siteMapUpdates' = acc.cache
       /\ tasks' = acc.tasks
       /\ calls' = acc.calls
       /\ patchLog' = acc.patchLog
       /\ rowLog' = acc.rowLog
       /\ smProcessed' = acc.count
  /\ vmBatchProgress' = NoProgress
  /\ processedSheets' = processedSheets + 1
  /\ UNCHANGED <<wb, connected, pc, units, unitIdx, processed, total,
                 formUpdates, dashboardUpdates, faults, vmExporting, others>>

\* getSiteMapById answers a suspended row callback, which runs to its end
TaskReturn(t) ==
  /\ pc \in WaitPcs \cup {"done"}
  /\ t \in tasks
  /\ tasks' = tasks \ {t}
  /\ \/ /\ Exists(t.siteMapId)
        /\ LET fetched == [Acc EXCEPT !.cache = MapSet(@, [key |-> t.siteMapId,
                                                          xml |-> RepoXml(t.siteMapId)])]
               acc == SiteMapPatch(fetched, t)
           IN /\ siteMapUpdates' = acc.cache
              /\ patchLog' = acc.patchLog
              /\ smProcessed' = acc.count
              /\ vmBatchProgress' = acc.progress
        /\ UNCHANGED faults
     \/ /\ ~Exists(t.siteMapId) \/ faults < MaxFaults
        /\ faults' = IF Exists(t.siteMapId) THEN faults + 1 ELSE faults
        /\ UNCHANGED <<siteMapUpdates, patchLog, smProcessed, vmBatchProgress>>
  /\ UNCHANGED <<wb, connected, pc, processedSheets, units, unitIdx, processed, total,
                 formUpdates, dashboardUpdates, calls, rowLog, vmExporting, others>>

-----------------------------------------------------------------------------
(* Flush of the layout caches and publish                                  *)

Stages == {"forms", "dash", "sm"}

CacheOf(stage) ==
  IF stage = "forms" THEN formUpdates
  ELSE IF stage = "dash" THEN dashboardUpdates ELSE siteMapUpdates

\* the "if (xUpdates.size > 0)" the run stands at
AtCheck(stage) ==
  IF stage = "forms" THEN pc = "sheet" /\ processedSheets = Len(wb)
  ELSE IF stage = "dash" THEN pc = "checkDash" ELSE pc = "checkSM"

AfterStage(stage) ==
  IF stage = "forms" THEN "checkDash" ELSE IF stage = "dash" THEN "checkSM" ELSE "publish"

FlushPc(stage) == "flush_" \o stage
FlushWaitPc(stage) == "flushWait_" \o stage

\* updateForm for forms and dashboards, updateSiteMap for site maps
FlushOp(stage) == IF stage = "sm" THEN "updateSiteMap" ELSE "updateForm"

\* the cache is empty: the flush is skipped
FlushSkip(stage) ==
  /\ AtCheck(stage)
  /\ Len(CacheOf(stage)) = 0
  /\ pc' = AfterStage(stage)
  /\ UNCHANGED <<wb, connected, processedSheets, units, unitIdx, processed, total,
                 formUpdates, dashboardUpdates, siteMapUpdates, tasks, calls, patchLog,
                 rowLog, faults, smProcessed, vmExporting, vmBatchProgress, others>>

\* applyFormContentUpdates / applySiteMapUpdates up to the loop
FlushBegin(stage) ==
  /\ AtCheck(stage)
  /\ Len(CacheOf(stage)) > 0
  /\ processed' = 0
  /\ total' = Len(CacheOf(stage))
  /\ unitIdx' = 1
  /\ pc' = FlushPc(stage)
  /\ UNCHANGED <<wb, connected, processedSheets, units,
                 formUpdates, dashboardUpdates, siteMapUpdates, tasks, calls, patchLog,
                 rowLog, faults, smProcessed, vmExporting, vmBatchProgress, others>>

\* the loop over the entries of the map issues the write of the next entry
FlushIssue(stage) ==
  /\ pc = FlushPc(stage)
  /\ unitIdx <= Len(CacheOf(stage))
  /\ LET data == CacheOf(stage)[unitIdx] IN
       IF connected
       THEN /\ calls' = Append(calls, Call(FlushOp(stage), data.key, data.xml, "pending"))
            /\ pc' = FlushWaitPc(stage)
            /\ UNCHANGED unitIdx
       ELSE /\ calls' = Append(calls, Call(FlushOp(stage), data.key, data.xml, "refused"))
            /\ unitIdx' = unitIdx + 1
            /\ UNCHANGED pc
  /\ UNCHANGED <<wb, connected, processedSheets, units, processed, total,
                 formUpdates, dashboardUpdates, siteMapUpdates, tasks, patchLog,
                 rowLog, faults, smProcessed, vmExporting, vmBatchProgress, others>>

\* the repository answers the write
FlushDone(stage) ==
  /\ pc = FlushWaitPc(stage)
  /\ pc' = FlushPc(stage)
  /\ unitIdx' = unitIdx + 1
  /\ \/ /\ calls' = Settle("ok")
        /\ processed' = processed + 1
        /\ vmBatchProgress' = <<processed + 1, total>>
        /\ UNCHANGED faults
     \/ /\ faults < MaxFaults
        /\ faults' = faults + 1
        /\ calls' = Settle("rejected")
        /\ UNCHANGED <<processed, vmBatchProgress>>
  /\ UNCHANGED <<wb, connected, processedSheets, units, total,
                 formUpdates, dashboardUpdates, siteMapUpdates, tasks, patchLog,
                 rowLog, smProcessed, vmExporting, others>>

\* the loop is over: progress reset
FlushEnd(stage) ==
  /\ pc = FlushPc(stage)
  /\ unitIdx > Len(CacheOf(stage))
  /\ vmBatchProgress' = NoProgress
  /\ pc' = AfterStage(stage)
  /\ UNCHANGED <<wb, connected, processedSheets, units, unitIdx, processed, total,
                 formUpdates, dashboardUpdates, siteMapUpdates, tasks, calls, patchLog,
                 rowLog, faults, smProcessed, vmExporting, others>>

\* a publish that reaches the repository whether or not there is a connection
PublishIssueUnchecked ==
  /\ pc = "publish"
  /\ calls' = Append(calls, Call("publishAllCustomizations", "", <<>>, "pending"))
  /\ pc' = "publishWait"
  /\ vmBatchProgress' = NoProgress
  /\ UNCHANGED <<wb, connected, processedSheets, units, unitIdx, processed, total,
                 formUpdates, dashboardUpdates, siteMapUpdates, tasks, patchLog,
                 rowLog, faults, smProcessed, vmExporting, others>>

\* "Publish all customizations" up to await publishAllCustomizations()
PublishIssue ==
  /\ pc = "publish"
  /\ IF connected
     THEN /\ calls' = Append(calls, Call("publishAllCustomizations", "", <<>>, "pending"))
          /\ pc' = "publishWait"
          /\ vmBatchProgress' = NoProgress
          /\ UNCHANGED vmExporting
     ELSE /\ calls' = Append(calls, Call("publishAllCustomizations", "", <<>>, "refused"))
          /\ Finally
  /\ UNCHANGED <<wb, connected, processedSheets, units, unitIdx, processed, total,
                 formUpdates, dashboardUpdates, siteMapUpdates, tasks, patchLog,
                 rowLog, faults, smProcessed, others>>

\* the repository answers the publish: "Import complete!" or the outer
\* catch, then the outer finally
PublishDone ==
  /\ pc = "publishWait"
  /\ \/ /\ calls' = Settle("ok")
        /\ UNCHANGED faults
     \/ /\ faults < MaxFaults
        /\ faults' = faults + 1
        /\ calls' = Settle("rejected")
  /\ Finally
  /\ UNCHANGED <<wb, connected, processedSheets, units, unitIdx, processed, total,
                 formUpdates, dashboardUpdates, siteMapUpdates, tasks, patchLog,
                 rowLog, smProcessed, others>>

Next ==
  \/ StartImport
  \/ LoadWorkbook
  \/ LoadFails
  \/ ThrowingSheet
  \/ UnknownSheet
  \/ UnitSheetStart
  \/ UnitIssue
  \/ UnitDone
  \/ UnitsEnd
  \/ FormSheetStart
  \/ FormRow
  \/ RowFetchDone
  \/ RowsEnd
  \/ SiteMapSheet
  \/ \E t \in tasks : TaskReturn(t)
  \/ \E stage \in Stages : FlushSkip(stage)
  \/ \E stage \in Stages : FlushBegin(stage)
  \/ \E stage \in Stages : FlushIssue(stage)
  \/ \E stage \in Stages : FlushDone(stage)
  \/ \E stage \in Stages : FlushEnd(stage)
  \/ PublishIssue
  \/ PublishDone

Spec == Init /\ [][Next]_vars

-----------------------------------------------------------------------------
(* Properties of the import run                                            *)

IsPublish(c) == c.op = "publishAllCustomizations"
IsFlush(c) == c.op \in {"updateForm", "updateSiteMap"}

PublishCalls == {j \in 1..Len(calls) : IsPublish(calls[j])}
FlushCalls(id) == {j \in 1..Len(calls) : IsFlush(calls[j]) /\ calls[j].id = id}

\* the run is past "for (const sheet of workbook.worksheets)"
SheetLoopOver ==
  \/ pc \in {"checkDash", "checkSM", "publish", "publishWait"}
  \/ pc \in {FlushPc(st) : st \in Stages} \cup {FlushWaitPc(st) : st \in Stages}
  \/ pc = "done" /\ PublishCalls # {}

\* the run is past the three flushes
FlushPhaseOver == pc \in {"publish", "publishWait"} \/ (pc = "done" /\ PublishCalls # {})

\* the call of unit u is in the history
Issued(u) ==
  \E j \in 1..Len(calls) : calls[j].op = u.op /\ calls[j].id = u.id /\ calls[j].arg = u.arg

\* the sheets of the workbook the dispatch loop can read
ReadableUnitSheets == {i \in 1..Len(wb) : wb[i].name \in UnitSheetNames /\ ~wb[i].bad}

\* documents that received a patch, with the cache that holds them
PatchedDocs(kind) == {patchLog[k].doc : k \in {n \in 1..Len(patchLog) : patchLog[n].kind = kind}}
CacheOfKind(kind) ==
  IF kind = "form" THEN formUpdates
  ELSE IF kind = "dashboard" THEN dashboardUpdates ELSE siteMapUpdates
Kinds == {"form", "dashboard", "sitemap"}

\* patch k is the last one the log holds for its element (and qualifier)
LastPatch(k) ==
  \A n \in (k + 1)..Len(patchLog) :
     ~ /\ patchLog[n].kind = patchLog[k].kind
       /\ patchLog[n].doc = patchLog[k].doc
       /\ patchLog[n].tag = patchLog[k].tag
       /\ patchLog[n].elementId = patchLog[k].elementId
       /\ patchLog[n].type = patchLog[k].type

\* C2: the publish-all operation is invoked at most once, and when it has
\* been invoked every sheet has been processed (no row of a sheet is still
\* waiting to be patched) and every entry of the form, dashboard and
\* site-map caches has had its write attempted.
C2_PublishOnceAfterSheetsAndFlushes ==
  /\ Cardinality(PublishCalls) <= 1
  /\ PublishCalls # {} =>
       /\ processedSheets = Len(wb)
       /\ tasks = {}
       /\ \A kind \in Kinds :
            \A i \in 1..Len(CacheOfKind(kind)) : FlushCalls(CacheOfKind(kind)[i].key) # {}

\* C3: when the run has ended and no row callback is outstanding, every
\* layout document that received a patch has been written exactly once, the
\* write was issued after the sheet loop, and the XML written is the text
\* the cache entry holds after all its patches.
C3_PatchedDocumentFlushedOnceWithFinalXml ==
  (pc = "done" /\ tasks = {}) =>
     \A kind \in Kinds : \A id \in PatchedDocs(kind) :
        /\ Cardinality(FlushCalls(id)) = 1
        /\ MapHas(CacheOfKind(kind), id)
        /\ \A j \in FlushCalls(id) : calls[j].arg = MapGet(CacheOfKind(kind), id).xml

\* the site-map document holds the captions patch p wrote
HoldsSiteMapPatch(doc, p) ==
  LET e == FindSiteMapElement(doc, p.tag, p.elementId)
      c == IF e = 0 THEN 0 ELSE QuerySelectorChild(doc, e, ContainerName(p.type))
  IN e # 0 /\ c # 0 /\ doc[c].caps = Entries(p.labels)

\* C4: a site-map document is fetched into the cache at most once, and once
\* no row callback is outstanding the cache entry holds the edit of every
\* row that patched the document.
C4_SiteMapFetchedOnceAllEditsKept ==
  /\ \A id \in SiteMapIds :
       Cardinality({j \in 1..Len(calls) :
                      calls[j].op = "getSiteMapById" /\ calls[j].id = id}) <= 1
  /\ tasks = {} =>
       \A k \in 1..Len(patchLog) :
          (patchLog[k].kind = "sitemap" /\ LastPatch(k)) =>
             /\ MapHas(siteMapUpdates, patchLog[k].doc)
             /\ HoldsSiteMapPatch(MapGet(siteMapUpdates, patchLog[k].doc).xml, patchLog[k])

\* the form document holds the captions patch p wrote, in a caption
\* container that belongs to the patched element
HoldsFormPatch(doc, p) ==
  LET e == FindFormElement(doc, IF p.tag = "cell" THEN "field" ELSE p.tag, p.elementId)
  IN /\ e # 0
     /\ \E j \in 1..Len(doc) :
          /\ doc[j].tag = "labels"
          /\ IsAncestor(doc, e, j)
          /\ doc[j].caps = Entries(p.labels)

\* C5: after any sequence of patches to distinct elements of one form or
\* dashboard, the cached XML holds the captions of every patch of the
\* sequence.
C5_FormPatchesAccumulate ==
  \A k \in 1..Len(patchLog) :
     (patchLog[k].kind \in {"form", "dashboard"} /\ LastPatch(k)) =>
        /\ MapHas(CacheOfKind(patchLog[k].kind), patchLog[k].doc)
        /\ HoldsFormPatch(MapGet(CacheOfKind(patchLog[k].kind), patchLog[k].doc).xml,
                          patchLog[k])

\* C6: once the sheet loop is over, every sheet has been counted and the
\* call of every unit of every readable Entities / Attributes / Views sheet
\* has been issued, whatever calls were rejected and whatever sheets threw;
\* once the flush phase is over, the write of every form and dashboard cache
\* entry has been issued; inside a dispatch loop every unit before the
\* current one has been issued.
C6_FailureIsolation ==
  /\ SheetLoopOver =>
       /\ processedSheets = Len(wb)
       /\ \A i \in ReadableUnitSheets :
            \A k \in 1..Len(UnitsOf(wb[i])) : Issued(UnitsOf(wb[i])[k])
  /\ FlushPhaseOver =>
       \A kind \in {"form", "dashboard"} :
          \A i \in 1..Len(CacheOfKind(kind)) : FlushCalls(CacheOfKind(kind)[i].key) # {}
  /\ pc \in {"units", "unitsWait"} =>
       \A k \in 1..Len(units) : (k < unitIdx) => Issued(units[k])

\* C6 witness: a Views unit was rejected, a later unit of the same sheet
\* was issued, a form write of the flush phase followed, the run has ended.
C6_Witness ==
  /\ pc = "done"
  /\ \E j, k, f \in 1..Len(calls) :
       /\ j < k /\ k < f
       /\ calls[j].op = "setLocLabels" /\ calls[j].status = "rejected"
       /\ calls[k].op = "setLocLabels"
       /\ calls[f].op = "updateForm"

\* C7: when the run has left a Forms / Dashboards sheet, every data row of
\* that sheet has been reached by the parser.
C7_SkippedRowNeverAbortsSheet ==
  \A i \in 1..Len(wb) :
     (i <= processedSheets /\ wb[i].name \in FormSheetNames /\ ~wb[i].bad) =>
        \A r \in 2..RowCount(wb[i]) :
           \E n \in 1..Len(rowLog) : rowLog[n] = <<i, r>>

-----------------------------------------------------------------------------
(* The language sweep: exportLanguageService.exportForms up to the revert  *)
(* of the operator's locale, called by exportTranslations.                 *)

\* languages the operator requests
MaxLangs == 2
\* vm.selectedTables
MaxTables == 2

Codes == {1031, 1033, 1036}

\* vm.uiLocale before getUserLanguage has answered: a code no language has
NoLocale == 0

\* sequences of distinct codes of length 1..MaxLangs
LangLists ==
  { l \in UNION {[1..n -> Codes] : n \in 1..MaxLangs} :
      \A i, j \in DOMAIN l : i # j => l[i] # l[j] }

\* exportTranslations: outputLangs, with the base language pushed when absent
OutputLangs(langs, base) ==
  IF \E i \in DOMAIN langs : langs[i] = base THEN langs ELSE Append(langs, base)

SweepCall(op, lang, user, iter, table, status) ==
  [op |-> op, lang |-> lang, user |-> user, iter |-> iter, table |-> table,
   status |-> status, active |-> sw.server]

\* the import variables while no import runs
ImportIdle ==
  /\ wb = <<>> /\ connected = FALSE /\ pc = "idle" /\ processedSheets = 0
  /\ units = <<>> /\ unitIdx = 0 /\ processed = 0 /\ total = 0
  /\ formUpdates = <<>> /\ dashboardUpdates = <<>> /\ siteMapUpdates = <<>>
  /\ tasks = {} /\ calls = <<>> /\ patchLog = <<>> /\ rowLog = <<>> /\ faults = 0
  /\ smProcessed = <<>> /\ vmExporting = FALSE /\ vmBatchProgress = NoProgress

InitSweep ==
  /\ ImportIdle
  /\ gr = [pc |-> "off"]
  /\ ex = [pc |-> "off"]
  /\ \E langs \in LangLists, base \in Codes, server \in Codes, nt \in 0..MaxTables,
        fe \in BOOLEAN, da \in BOOLEAN, conn \in BOOLEAN :
       sw = [pc |-> "idle", connected |-> conn, formsExport |-> fe, dashboards |-> da,
             tables |-> nt, outputLangs |-> OutputLangs(langs, base), base |-> base,
             server |-> server, uiLocale |-> NoLocale, userId |-> "",
             currentLang |-> NoLocale, idx |-> 0, calls |-> <<>>]

SweepLast == Len(sw.calls)
SweepSettle(status) == [sw.calls EXCEPT ![SweepLast].status = status]
SweepLangNow == sw.outputLangs[sw.idx]

\* exportForms up to await getUserLanguage()
SweepStart ==
  /\ sw.pc = "idle"
  /\ IF ~(sw.formsExport \/ sw.dashboards)
     THEN sw' = [sw EXCEPT !.pc = "revert"]
     ELSE IF sw.connected
     THEN sw' = [sw EXCEPT !.pc = "whoWait",
                           !.calls = Append(@, SweepCall("getUserLanguage", NoLocale, "", 0, 0, "pending"))]
     ELSE sw' = [sw EXCEPT !.pc = "rejected",
                           !.calls = Append(@, SweepCall("getUserLanguage", NoLocale, "", 0, 0, "refused"))]
  /\ UNCHANGED <<importVars, gr, ex>>

\* getUserLanguage answers: the locale is recorded, or the export fails
SweepUserLanguage ==
  /\ sw.pc = "whoWait"
  /\ \/ sw' = [sw EXCEPT !.pc = "lang", !.calls = SweepSettle("ok"),
                         !.uiLocale = sw.server, !.userId = "u1",
                         !.currentLang = sw.server, !.idx = 1]
     \/ sw' = [sw EXCEPT !.pc = "rejected", !.calls = SweepSettle("rejected")]
  /\ UNCHANGED <<importVars, gr, ex>>

\* a sweep that compares with the recorded locale instead of the active one
SwitchNeededAgainstRecorded(currentLang, code) == sw.uiLocale # code

\* if (currentLang !== lang.code)
SwitchNeeded(currentLang, code) == currentLang # code

\* head of the loop body: the switch is issued, or skipped
SweepLang ==
  /\ sw.pc = "lang"
  /\ sw.idx <= Len(sw.outputLangs)
  /\ IF SwitchNeeded(sw.currentLang, SweepLangNow)
     THEN sw' = [sw EXCEPT !.pc = "switchWait",
                           !.calls = Append(@, SweepCall("updateLanguage", SweepLangNow,
                                                         sw.userId, sw.idx, 0, "pending"))]
     ELSE sw' = [sw EXCEPT !.pc = "fetch"]
  /\ UNCHANGED <<importVars, gr, ex>>

\* updateLanguage: the repository answers the update of the user settings
SweepSwitchApplied ==
  /\ sw.pc = "switchWait"
  /\ \/ sw' = [sw EXCEPT !.pc = "settle", !.calls = SweepSettle("settling"),
                         !.server = sw.calls[SweepLast].lang]
     \/ sw' = [sw EXCEPT !.pc = "rejected", !.calls = SweepSettle("rejected")]
  /\ UNCHANGED <<importVars, gr, ex>>

\* updateLanguage: the settle delay is over; currentLang = lang.code
SweepSwitchSettled ==
  /\ sw.pc = "settle"
  /\ sw' = [sw EXCEPT !.pc = "fetch", !.calls = SweepSettle("ok"),
                      !.currentLang = SweepLangNow]
  /\ UNCHANGED <<importVars, gr, ex>>

\* getForms calls of the current pass that have not answered
SweepPendingForms ==
  {j \in 1..Len(sw.calls) : sw.calls[j].op = "getForms" /\ sw.calls[j].iter = sw.idx
                             /\ sw.calls[j].status = "pending"}

RECURSIVE FormsCalls(_, _)
FormsCalls(log, t) ==
  IF t > sw.tables THEN log
  ELSE FormsCalls(Append(log, SweepCall("getForms", SweepLangNow, "", sw.idx, t, "pending")), t + 1)

\* if (formsExport) await Promise.all(selectedTables.map(getForms))
SweepFetchForms ==
  /\ sw.pc = "fetch"
  /\ IF sw.formsExport /\ sw.tables > 0
     THEN sw' = [sw EXCEPT !.pc = "formsWait", !.calls = FormsCalls(@, 1)]
     ELSE sw' = [sw EXCEPT !.pc = "dash"]
  /\ UNCHANGED <<importVars, gr, ex>>

\* one getForms answers; Promise.all resolves with the last one and rejects
\* with the first rejection
SweepFormsAnswer(j) ==
  /\ sw.pc = "formsWait"
  /\ j \in SweepPendingForms
  /\ \/ sw' = [sw EXCEPT !.calls = [@ EXCEPT ![j].status = "ok"],
                         !.pc = IF SweepPendingForms = {j} THEN "dash" ELSE "formsWait"]
     \/ sw' = [sw EXCEPT !.calls = [@ EXCEPT ![j].status = "rejected"], !.pc = "rejected"]
  /\ UNCHANGED <<importVars, gr, ex>>

\* if (options.dashboards) await getDashboards(...); else the pass is over
SweepFetchDashboards ==
  /\ sw.pc = "dash"
  /\ IF sw.dashboards
     THEN sw' = [sw EXCEPT !.pc = "dashWait",
                           !.calls = Append(@, SweepCall("getDashboards", SweepLangNow, "",
                                                         sw.idx, 0, "pending"))]
     ELSE sw' = [sw EXCEPT !.pc = "lang", !.idx = @ + 1]
  /\ UNCHANGED <<importVars, gr, ex>>

\* getDashboards answers
SweepDashboardsAnswer ==
  /\ sw.pc = "dashWait"
  /\ \/ sw' = [sw EXCEPT !.pc = "lang", !.idx = @ + 1, !.calls = SweepSettle("ok")]
     \/ sw' = [sw EXCEPT !.pc = "rejected", !.calls = SweepSettle("rejected")]
  /\ UNCHANGED <<importVars, gr, ex>>

\* the loop is over
SweepEnd ==
  /\ sw.pc = "lang"
  /\ sw.idx > Len(sw.outputLangs)
  /\ sw' = [sw EXCEPT !.pc = "revert"]
  /\ UNCHANGED <<importVars, gr, ex>>

\* "Reverting language...": await updateLanguage(vm.uiLocale, vm.userId)
SweepRevert ==
  /\ sw.pc = "revert"
  /\ IF sw.connected
     THEN sw' = [sw EXCEPT !.pc = "revertWait",
                           !.calls = Append(@, SweepCall("updateLanguage", sw.uiLocale,
                                                         sw.userId, 0, 0, "pending"))]
     ELSE sw' = [sw EXCEPT !.pc = "rejected",
                           !.calls = Append(@, SweepCall("updateLanguage", sw.uiLocale,
                                                         sw.userId, 0, 0, "refused"))]
  /\ UNCHANGED <<importVars, gr, ex>>

\* the repository answers the revert
SweepRevertApplied ==
  /\ sw.pc = "revertWait"
  /\ \/ sw' = [sw EXCEPT !.pc = "revertSettle", !.calls = SweepSettle("settling"),
                         !.server = IF sw.userId = "" THEN @ ELSE sw.calls[SweepLast].lang]
     \/ sw' = [sw EXCEPT !.pc = "rejected", !.calls = SweepSettle("rejected")]
  /\ UNCHANGED <<importVars, gr, ex>>

\* the settle delay of the revert is over: exportForms goes on to its rows
SweepRevertSettled ==
  /\ sw.pc = "revertSettle"
  /\ sw' = [sw EXCEPT !.pc = "resolved", !.calls = SweepSettle("ok")]
  /\ UNCHANGED <<importVars, gr, ex>>

NextSweep ==
  \/ SweepStart
  \/ SweepUserLanguage
  \/ SweepLang
  \/ SweepSwitchApplied
  \/ SweepSwitchSettled
  \/ SweepFetchForms
  \/ \E j \in 1..Len(sw.calls) : SweepFormsAnswer(j)
  \/ SweepFetchDashboards
  \/ SweepDashboardsAnswer
  \/ SweepEnd
  \/ SweepRevert
  \/ SweepRevertApplied
  \/ SweepRevertSettled

SpecSweep == InitSweep /\ [][NextSweep]_vars

\* the calls of the sweep proper: switches and fetches of the passes
SweepFailures ==
  {j \in 1..Len(sw.calls) : sw.calls[j].iter > 0 /\ sw.calls[j].status = "rejected"}

\* C1: when the export has failed because a locale switch or a form or
\* dashboard fetch of the sweep was rejected after the operator's locale was
\* recorded, the locale switch has been invoked with the recorded locale and
\* user id after the rejected call.
C1_LocaleRestoredOnFailure ==
  (sw.pc = "rejected" /\ sw.userId # "") =>
     \A j \in SweepFailures :
        \E r \in (j + 1)..Len(sw.calls) :
           /\ sw.calls[r].op = "updateLanguage"
           /\ sw.calls[r].lang = sw.uiLocale
           /\ sw.calls[r].user = sw.userId

\* C8: every locale switch of a pass is issued while another language is
\* active at the repository; every form or dashboard fetch of a pass is
\* issued while the language of the pass is active and every earlier switch
\* has completed, its settle delay included.
C8_SweepProtocol ==
  \A j \in 1..Len(sw.calls) :
     LET c == sw.calls[j] IN
       /\ (c.op = "updateLanguage" /\ c.iter > 0) => c.active # c.lang
       /\ c.op \in {"getForms", "getDashboards"} =>
            /\ c.active = c.lang
            /\ c.lang = sw.outputLangs[c.iter]
            /\ \A k \in 1..(j - 1) :
                 sw.calls[k].op = "updateLanguage" => sw.calls[k].status = "ok"

\* C8 witness: a pass that needed no switch and a later pass that needed
\* one have both fetched
C8_Witness ==
  \E j, k \in 1..Len(sw.calls) :
     /\ j < k
     /\ sw.calls[j].op \in {"getForms", "getDashboards"} /\ sw.calls[j].iter = 1
     /\ \A n \in 1..j : sw.calls[n].op # "updateLanguage"
     /\ sw.calls[k].op \in {"getForms", "getDashboards"} /\ sw.calls[k].iter = 2
     /\ \E n \in 1..k : sw.calls[n].op = "updateLanguage" /\ sw.calls[n].iter = 2

-----------------------------------------------------------------------------
(* Row grouping: importEntities / importAttributes fed row by row          *)

\* data rows of the sheet
MaxGroupRows == 2

GroupKinds == {"Entities", "Attributes"}

GroupHeader(kind) ==
  IF kind = "Entities" THEN <<"Entity Id", "Entity Logical Name", "Type", "1033", "1036">>
  ELSE <<"Attribute Id", "Entity Logical Name", "Attribute Logical Name", "Type", "1033", "1036">>

\* the language cells of a data row: both languages, one, or blanks only
GroupCells == { <<"A", "C">>, <<"B", Null>>, <<" ", Null>> }

\* the data rows a sheet may hold: rows of every qualifier for two keys, a
\* row of an unknown qualifier, a row without its identity
GroupRowMenu(kind) ==
  IF kind = "Entities"
  THEN { <<"{id}", e, t>> \o c :
           e \in {"account", "contact"},
           t \in {"DisplayName", "DisplayCollectionName", "Description"},
           c \in GroupCells }
       \cup { <<"{id}", e, "Other", "A", "C">> : e \in {"account", "contact"} }
       \cup { <<"{id}", "", "DisplayName", "A", "C">> }
  ELSE { <<"{id}", e, "name", t>> \o c :
           e \in {"account", "contact"}, t \in {"DisplayName", "Description"},
           c \in GroupCells }
       \cup { <<"{id}", "account", "city", "DisplayName">> \o c : c \in GroupCells }
       \cup { <<"{id}", e, "name", "Other", "A", "C">> : e \in {"account", "contact"} }
       \cup { <<"{id}", "account", "", "DisplayName", "A", "C">> }

\* the language columns of the sheet under construction
GroupLcids(kind) ==
  GetLanguageColumns(Sheet(kind, <<GroupHeader(kind)>>, FALSE), GroupStartCol(kind))

InitGroup ==
  /\ ImportIdle
  /\ sw = [pc |-> "off"]
  /\ ex = [pc |-> "off"]
  /\ \E kind \in GroupKinds :
       gr = [pc |-> "rows", kind |-> kind, rows |-> <<>>, map |-> <<>>, units |-> <<>>]

\* sheet.eachRow reaches one more data row
GroupStep ==
  /\ gr.pc = "rows"
  /\ Len(gr.rows) < MaxGroupRows
  /\ \E row \in GroupRowMenu(gr.kind) :
       gr' = [gr EXCEPT !.rows = Append(@, row),
                        !.map = GroupRow(gr.kind, @, row, GroupLcids(gr.kind))]
  /\ UNCHANGED <<importVars, sw, ex>>

\* the rows are over: one call per entry of the map
GroupDispatch ==
  /\ gr.pc = "rows"
  /\ gr' = [gr EXCEPT !.pc = "done",
                      !.units = [i \in 1..Len(gr.map) |-> GroupUnit(gr.kind, gr.map[i])]]
  /\ UNCHANGED <<importVars, sw, ex>>

NextGroup == GroupStep \/ GroupDispatch

SpecGroup == InitGroup /\ [][NextGroup]_vars

\* what the sheet says, read off its cells
RowEntity(row) == Trim(StringOr(GetCell(row, 2)))
RowAttribute(kind, row) == IF kind = "Entities" THEN "" ELSE Trim(StringOr(GetCell(row, 3)))
RowType(kind, row) == Trim(StringOr(GetCell(row, IF kind = "Entities" THEN 3 ELSE 4)))
RowValid(kind, row) ==
  /\ RowEntity(row) # ""
  /\ RowType(kind, row) # ""
  /\ kind = "Attributes" => RowAttribute(kind, row) # ""

\* the column of the header that names language code, 0 when none
HeaderColumnOf(header, code) ==
  LET cols == {c \in 1..Len(header) : NumberOf(header[c]) = code}
  IN IF cols = {} THEN 0 ELSE Min(cols)

\* the text the row gives for a language, Null when it gives none
RowText(kind, row, code) ==
  LET v == GetCell(row, HeaderColumnOf(GroupHeader(kind), code))
  IN IF v = Null \/ Trim(v) = "" THEN Null ELSE v

\* rows of the sheet that speak of (entity, attribute, qualifier, code)
RowsAbout(entity, attribute, qual, code) ==
  {n \in 1..Len(gr.rows) :
     /\ RowValid(gr.kind, gr.rows[n])
     /\ RowEntity(gr.rows[n]) = entity
     /\ RowAttribute(gr.kind, gr.rows[n]) = attribute
     /\ RowType(gr.kind, gr.rows[n]) = qual
     /\ RowText(gr.kind, gr.rows[n], code) # Null}

\* the dictionary the rows of the sheet give (entity, attribute, qualifier):
\* per language the text of the last row that has one
MergedDict(entity, attribute, qual) ==
  LET codes == {c \in Codes : RowsAbout(entity, attribute, qual, c) # {}}
  IN [c \in codes |->
        RowText(gr.kind, gr.rows[Max(RowsAbout(entity, attribute, qual, c))], c)]

\* (entity, attribute) pairs of the valid rows
GroupKeys ==
  {<<RowEntity(gr.rows[n]), RowAttribute(gr.kind, gr.rows[n])>> :
     n \in {m \in 1..Len(gr.rows) : RowValid(gr.kind, gr.rows[m])}}

UnitsFor(k) ==
  {i \in 1..Len(gr.units) :
     /\ gr.units[i].arg.entityLogicalName = k[1]
     /\ gr.units[i].arg.attributeLogicalName = k[2]}

\* C9: at every row the map holds exactly one entry per key of the valid
\* rows so far, and each qualifier of the entry is the merge of the rows of
\* that key and qualifier (a later row overrides a language it names and
\* removes nothing); at dispatch there is exactly one call per key and it
\* carries those dictionaries.
C9_RowGrouping ==
  /\ \A k \in GroupKeys :
       /\ Cardinality({i \in 1..Len(gr.map) :
                         /\ gr.map[i].entityLogicalName = k[1]
                         /\ gr.map[i].attributeLogicalName = k[2]}) = 1
       /\ \A i \in 1..Len(gr.map) :
            (gr.map[i].entityLogicalName = k[1] /\ gr.map[i].attributeLogicalName = k[2]) =>
               /\ gr.map[i].displayName = MergedDict(k[1], k[2], "DisplayName")
               /\ gr.map[i].description = MergedDict(k[1], k[2], "Description")
               /\ gr.kind = "Entities" =>
                    gr.map[i].displayCollectionName =
                      MergedDict(k[1], k[2], "DisplayCollectionName")
  /\ Len(gr.map) = Cardinality(GroupKeys)
  /\ gr.pc = "done" =>
       /\ Len(gr.units) = Cardinality(GroupKeys)
       /\ \A k \in GroupKeys :
            /\ Cardinality(UnitsFor(k)) = 1
            /\ \A i \in UnitsFor(k) :
                 /\ gr.units[i].arg.displayName = OrNull(MergedDict(k[1], k[2], "DisplayName"))
                 /\ gr.units[i].arg.description = OrNull(MergedDict(k[1], k[2], "Description"))

\* C9 witness: two rows of one attribute, DisplayName then Description, the
\* second without the language the first has, were dispatched as one call
\* that carries both
C9_Witness ==
  /\ gr.pc = "done"
  /\ gr.kind = "Attributes"
  /\ Len(gr.rows) = 2
  /\ Len(gr.units) = 1
  /\ RowType(gr.kind, gr.rows[1]) = "DisplayName"
  /\ RowType(gr.kind, gr.rows[2]) = "Description"
  /\ gr.units[1].arg.displayName = [c \in {1033, 1036} |-> IF c = 1033 THEN "A" ELSE "C"]
  /\ gr.units[1].arg.description = [c \in {1033} |-> "B"]

-----------------------------------------------------------------------------
(* Export projection: the rows exportTableInfo, exportViews and            *)
(* exportBooleans add under the header of the requested languages          *)

\* localized labels the repository returns for a qualifier
MaxLabels == 2
\* data rows of the sheet
MaxExportRows == 2

\* the header cell of a language: lang.code as the workbook shows it
CodeCell(code) ==
  CASE code = 1031 -> "1031"
    [] code = 1033 -> "1033"
    [] code = 1036 -> "1036"
    [] OTHER -> ""

\* the label the repository holds for a language
LabelText(code) ==
  CASE code = 1031 -> "Konto"
    [] code = 1033 -> "Account"
    [] code = 1036 -> "Compte"
    [] OTHER -> ""

\* new LangTranslation(label.LanguageCode, label.Label)
LangTranslation(code, text) == [code |-> code, translation |-> text]

\* LocalizedLabels of a qualifier: labels of distinct languages, in the
\* order the repository returns them
TranslationLists ==
  { [i \in DOMAIN l |-> LangTranslation(l[i], LabelText(l[i]))] :
      l \in { m \in UNION {[1..n -> Codes] : n \in 0..MaxLabels} :
                \A i, j \in DOMAIN m : i # j => m[i] # m[j] } }

ExportKinds == {"Entities", "Views", "Booleans"}

\* the identity columns of the header row
IdentityHeader(kind) ==
  IF kind = "Entities" THEN <<"Entity Id", "Entity Logical Name", "Type">>
  ELSE IF kind = "Views" THEN <<"View Id", "Entity Logical Name", "View Type", "Type">>
  ELSE <<"Attribute Id", "Entity Logical Name", "Attribute Logical Name", "Attribute Type",
         "Value", "Type">>

\* the identity cells of a data row
IdentityCells(kind, qual) ==
  IF kind = "Entities" THEN <<"{e1}", "account", qual>>
  ELSE IF kind = "Views" THEN <<"{v1}", "account", "Public View", qual>>
  ELSE <<"{b1}", "account", "donotemail", "Boolean", "1", qual>>

\* the qualifiers a sheet lists, after the labelOptions filter
Qualifiers(kind, labelOptions) ==
  IF kind = "Entities"
  THEN IF labelOptions = "both" THEN {"DisplayName", "DisplayCollectionName", "Description"}
       ELSE IF labelOptions = "names" THEN {"DisplayName", "DisplayCollectionName"}
       ELSE {"Description"}
  ELSE IF kind = "Views" THEN {"Label", "Description"}
  ELSE IF labelOptions = "both" THEN {"Label", "Description"}
       ELSE IF labelOptions = "names" THEN {"Label"}
       ELSE {"Description"}

\* [...identity, ...outputLangs.map((lang) => lang.code)]
HeaderRow(kind, outputLangs) ==
  IdentityHeader(kind) \o [i \in 1..Len(outputLangs) |-> CodeCell(outputLangs[i])]

\* ...langProp.translation.map((trans) => trans.translation)
PositionalCells(translation, outputLangs) ==
  [i \in 1..Len(translation) |-> translation[i].translation]

\* ...outputLangs.map((lang) => translation.find((t) => t.code === lang.code)?.translation ?? "")
ByCodeCells(translation, outputLangs) ==
  [i \in 1..Len(outputLangs) |->
     LET hits == {n \in 1..Len(translation) : translation[n].code = outputLangs[i]}
     IN IF hits = {} THEN "" ELSE translation[Min(hits)].translation]

\* the language cells of a data row of the sheet
LanguageCells(kind, translation, outputLangs) ==
  IF kind = "Booleans" THEN ByCodeCells(translation, outputLangs)
  ELSE PositionalCells(translation, outputLangs)

InitCells ==
  /\ ImportIdle
  /\ sw = [pc |-> "off"]
  /\ gr = [pc |-> "off"]
  /\ \E kind \in ExportKinds, langs \in LangLists, base \in Codes,
        lo \in {"both", "names", "descriptions"} :
       ex = [pc |-> "header", kind |-> kind, labelOptions |-> lo,
             outputLangs |-> OutputLangs(langs, base), rows |-> <<>>, sources |-> <<>>]

\* wsheet.addRow([...header])
ExportHeader ==
  /\ ex.pc = "header"
  /\ ex' = [ex EXCEPT !.pc = "rows",
                      !.rows = <<HeaderRow(ex.kind, ex.outputLangs)>>,
                      !.sources = << <<>> >>]
  /\ UNCHANGED <<importVars, sw, gr>>

\* langProps.forEach((langProp) => wsheet.addRow(row)): one qualifier
ExportRow ==
  /\ ex.pc = "rows"
  /\ Len(ex.rows) <= MaxExportRows
  /\ \E qual \in Qualifiers(ex.kind, ex.labelOptions), translation \in TranslationLists :
       ex' = [ex EXCEPT
                !.rows = Append(@, IdentityCells(ex.kind, qual) \o
                                   LanguageCells(ex.kind, translation, ex.outputLangs)),
                !.sources = Append(@, translation)]
  /\ UNCHANGED <<importVars, sw, gr>>

NextCells == ExportHeader \/ ExportRow

SpecCells == InitCells /\ [][NextCells]_vars

\* the text a translation list holds for a language, "" when it holds none
TextFor(translation, code) ==
  LET hits == {n \in 1..Len(translation) : translation[n].code = code}
  IN IF hits = {} THEN "" ELSE translation[Min(hits)].translation

\* C10: in every data row of the sheet, the cell under the header column of
\* a requested language holds the text the row's translation list has for
\* that language, and is empty when the list has none.
C10_CellUnderOwnLanguage ==
  \A r \in 2..Len(ex.rows) :
     \A i \in 1..Len(ex.outputLangs) :
        LET col == HeaderColumnOf(ex.rows[1], ex.outputLangs[i])
        IN /\ col # 0
           /\ StringOr(GetCell(ex.rows[r], col)) = TextFor(ex.sources[r], ex.outputLangs[i])

\* the same statement for the Booleans sheet alone
BooleansCellUnderOwnLanguage == ex.kind = "Booleans" => C10_CellUnderOwnLanguage

-----------------------------------------------------------------------------
(* Round trip: one exported row read back by the import of its sheet       *)

\* importLocalOptionSets (and importBooleans, which delegates to it): the rows array
RECURSIVE OptionRowsFrom(_, _, _)
OptionRowsFrom(rows, i, lcids) ==
  IF i > Len(rows) THEN <<>>
  ELSE LET entity == Trim(StringOr(GetCell(rows[i], 2)))
           attribute == Trim(StringOr(GetCell(rows[i], 3)))
           value == NumberOf(StringOr(GetCell(rows[i], 5)))
           type == Trim(IF GetCell(rows[i], 6) = Null THEN "Label" ELSE GetCell(rows[i], 6))
           labels == ReadLabels(rows[i], 7, lcids)
           rest == OptionRowsFrom(rows, i + 1, lcids)
       IN IF entity # "" /\ attribute # "" /\ DOMAIN labels # {}
          THEN <<[op |-> "updateOptionValue", id |-> entity \o "." \o attribute,
                  arg |-> [value |-> value, isDescription |-> type = "Description",
                           labels |-> labels]]>> \o rest
          ELSE rest

OptionUnits(sheet) == OptionRowsFrom(sheet.rows, 2, GetLanguageColumns(sheet, 7))

\* the update units the import derives from a sheet of the export
ImportUnits(sheet) ==
  IF sheet.name = "Booleans" THEN OptionUnits(sheet)
  ELSE IF sheet.name = "Views" THEN ViewUnits(sheet)
  ELSE GroupUnits(sheet)

\* the dictionaries an update unit carries
UnitDicts(u) ==
  IF u.op \in {"updateEntityMetadata", "updateAttributeMetadata"}
  THEN {u.arg.displayName, u.arg.displayCollectionName, u.arg.description} \ {NullArg}
  ELSE {u.arg.labels}

InitTrip ==
  /\ ImportIdle
  /\ sw = [pc |-> "off"]
  /\ gr = [pc |-> "off"]
  /\ \E kind \in ExportKinds, langs \in LangLists, base \in Codes,
        translation \in TranslationLists :
       \E qual \in Qualifiers(kind, "both") :
         ex = [pc |-> "export", kind |-> kind, outputLangs |-> OutputLangs(langs, base),
               qual |-> qual, translation |-> translation,
               sheet |-> Sheet(kind, <<>>, FALSE), units |-> <<>>]

\* the export writes the header and the row of the qualifier
TripExport ==
  /\ ex.pc = "export"
  /\ ex' = [ex EXCEPT
              !.pc = "import",
              !.sheet = Sheet(ex.kind,
                              << HeaderRow(ex.kind, ex.outputLangs),
                                 IdentityCells(ex.kind, ex.qual) \o
                                   LanguageCells(ex.kind, ex.translation, ex.outputLangs) >>,
                              FALSE)]
  /\ UNCHANGED <<importVars, sw, gr>>

\* the import reads the sheet as it was written
TripImport ==
  /\ ex.pc = "import"
  /\ ex' = [ex EXCEPT !.pc = "done", !.units = ImportUnits(ex.sheet)]
  /\ UNCHANGED <<importVars, sw, gr>>

NextTrip == TripExport \/ TripImport

SpecTrip == InitTrip /\ [][NextTrip]_vars

\* C11: every update unit the import derives from the unmodified sheet
\* carries, for each language it names, the text the repository held for
\* that language at the export: no unit carries a change.
C11_RoundTripNoChange ==
  ex.pc = "done" =>
     \A i \in 1..Len(ex.units) :
        \A d \in UnitDicts(ex.units[i]) :
           \A code \in DOMAIN d : d[code] = TextFor(ex.translation, code)

\* rows of the grouped sheet that carry a text in some language cell
RowsWithText ==
  {n \in 1..Len(gr.rows) : \E code \in Codes : RowText(gr.kind, gr.rows[n], code) # Null}

\* C12: every call the Entities / Attributes import dispatches stems from a
\* row that has a non-empty language cell: rows whose language cells are all
\* empty or blank produce no update unit and no repository call.
C12_BlankRowsCauseNoWrite ==
  gr.pc = "done" =>
     \A i \in 1..Len(gr.units) :
        \E n \in RowsWithText :
           /\ RowValid(gr.kind, gr.rows[n])
           /\ RowEntity(gr.rows[n]) = gr.units[i].arg.entityLogicalName
           /\ RowAttribute(gr.kind, gr.rows[n]) = gr.units[i].arg.attributeLogicalName

-----------------------------------------------------------------------------
(* Language column detection: the header of a sheet, the first language    *)
(* column the parser of its kind uses, and the codes it reads from there.  *)
(* Record gr = [pc, kind, header, start, lcids].                           *)

\* number of header cells that follow the identity columns
MaxTail == 2

ColumnKinds == {"Entities", "Attributes", "Forms", "Dashboards", "Forms Tabs", "SiteMap Areas"}

\* the identity columns the parser documents for the sheet kind
IdentityColumns(kind) ==
  CASE kind = "Entities"      -> <<"Entity Id", "Entity Logical Name", "Type">>
    [] kind = "Attributes"    -> <<"Attribute Id", "Entity Logical Name",
                                   "Attribute Logical Name", "Type">>
    [] kind = "Forms"         -> <<"Form Unique Id", "Form Id", "Entity Logical Name",
                                   "Form Type", "Type">>
    [] kind = "Dashboards"    -> <<"Form Unique Id", "Form Id", "Type">>
    [] kind = "Forms Tabs"    -> <<"Tab Id", "Entity Logical Name", "Form Name",
                                   "Form Unique Id", "Form Id">>
    [] OTHER                  -> <<"SiteMap Name", "SiteMap Id", "Area Id", "Type">>

\* header cells an operator may leave after the identity columns
TailCells == {"5", "Notes", "1033", "1036"}

HeaderTails == UNION {[1..n -> TailCells] : n \in 1..MaxTail}

\* the first language column the parser of the kind works with
LangStartCol(kind, sheet) ==
  CASE kind = "Entities"      -> 4
    [] kind = "Attributes"    -> 5
    [] kind = "Forms"         -> DetectLangStartCol(sheet, 4)
    [] kind = "Dashboards"    -> DetectLangStartCol(sheet, 4)
    [] kind = "Forms Tabs"    -> DetectLangStartCol(sheet, 6)
    [] OTHER                  -> DetectLangStartCol(sheet, 5)

InitCols ==
  /\ ImportIdle
  /\ sw = [pc |-> "off"]
  /\ ex = [pc |-> "off"]
  /\ \E kind \in ColumnKinds, tail \in HeaderTails :
       gr = [pc |-> "start", kind |-> kind, header |-> IdentityColumns(kind) \o tail,
             start |-> 0, lcids |-> <<>>]

\* "let langStartCol = ...; for (col ...) { ... break }", or the fixed column
ColsStart ==
  /\ gr.pc = "start"
  /\ gr' = [gr EXCEPT !.pc = "lcids",
                      !.start = LangStartCol(gr.kind, Sheet(gr.kind, <<gr.header>>, FALSE))]
  /\ UNCHANGED <<importVars, sw, ex>>

\* "const lcids = this.getLanguageColumns(sheet, langStartCol)"
ColsLcids ==
  /\ gr.pc = "lcids"
  /\ gr' = [gr EXCEPT !.pc = "done",
                      !.lcids = GetLanguageColumns(Sheet(gr.kind, <<gr.header>>, FALSE),
                                                   gr.start)]
  /\ UNCHANGED <<importVars, sw, ex>>

NextCols == ColsStart \/ ColsLcids

SpecCols == InitCols /\ [][NextCols]_vars

\* header columns, from the first column after the identity columns, whose
\* value parses as an integer above 1000
CodeColumns ==
  {c \in (Len(IdentityColumns(gr.kind)) + 1)..Len(gr.header) :
     NumberOf(gr.header[c]) # NaN /\ NumberOf(gr.header[c]) > 1000}

\* C13: in every sheet kind the language block starts at the first header
\* column, from the sheet's offset on, that parses as an integer above 1000;
\* a header cell before it (an integer of at most 1000, or a text) gives no
\* language column.
C13_LanguageColumnDetection ==
  (gr.pc = "done" /\ CodeColumns # {}) =>
     /\ gr.start = Min(CodeColumns)
     /\ Len(gr.lcids) = Len(gr.header) - Min(CodeColumns) + 1

-----------------------------------------------------------------------------
(* Export runs over one view model: exportViews, the form snapshots of     *)
(* exportForms, the tab accumulation, the site map extraction, and the     *)
(* rows each run writes. Record sw = [pc, run, repoViews, formDocs,        *)
(* siteMap, base, outputLangs, li, views, forms, tabs, siteAreas,         *)
(* siteGroups, out]; views, forms and tabs are lists of the selected table. *)

\* export runs the operator starts on the same view model
MaxRuns == 2

\* views the repository holds for the table
MaxViews == 2

\* site map m2: area a1 without containers of its own; its group g1 has
\* titles only; the sub area s1 of g1 has titles and descriptions
SiteMapM2 ==
  << Node("SiteMap", "", "", 0, <<>>),
     Node("Area", "a1", "", 1, <<>>),
     Node("Group", "g1", "", 2, <<>>),
     Node("Titles", "", "", 3, <<Cap(1033, "Customers")>>),
     Node("SubArea", "s1", "", 3, <<>>),
     Node("Titles", "", "", 5, <<Cap(1033, "Accounts")>>),
     Node("Descriptions", "", "", 5, <<Cap(1033, "All accounts")>>) >>

\* the forms of the table in the repository
FormMenus ==
  { << [id |-> "f2", xml |-> FormF2] >>,
    << [id |-> "f1", xml |-> FormF1], [id |-> "f2", xml |-> FormF2] >> }

\* Array.from(container.children).map(label => ({code, translation})),
\* [] when there is no container
CaptionsOf(doc, c) ==
  IF c = 0 THEN <<>>
  ELSE [i \in DOMAIN doc[c].caps |->
          LangTranslation(doc[c].caps[i].code, doc[c].caps[i].text)]

\* a set of indexes as the ascending sequence
RECURSIVE InOrder(_)
InOrder(S) == IF S = {} THEN <<>> ELSE <<Min(S)>> \o InOrder(S \ {Min(S)})

\* exportSiteMap: the record pushed to vm.siteAreas for Area element a
SiteArea(doc, a) ==
  [id |-> doc[a].id, el |-> a,
   title |-> CaptionsOf(doc, QuerySelector(doc, a, "Titles")),
   description |-> CaptionsOf(doc, QuerySelector(doc, a, "Descriptions"))]

\* exportSiteMap: the record pushed to vm.siteGroups for Group element g;
\* only the Titles container is checked against its parent
SiteGroup(doc, g) ==
  LET t == QuerySelector(doc, g, "Titles")
  IN [id |-> doc[g].id, el |-> g,
      title |-> CaptionsOf(doc, IF t # 0 /\ doc[t].parent # g THEN 0 ELSE t),
      description |-> CaptionsOf(doc, QuerySelector(doc, g, "Descriptions"))]

SiteAreas(doc) ==
  LET els == InOrder(ElementsByTagName(doc, "Area"))
  IN [k \in DOMAIN els |-> SiteArea(doc, els[k])]

\* groups are listed area by area (area.getElementsByTagName("Group"))
SiteGroups(doc) ==
  LET els == InOrder({g \in ElementsByTagName(doc, "Group") :
                        \E a \in ElementsByTagName(doc, "Area") : IsAncestor(doc, a, g)})
  IN [k \in DOMAIN els |-> SiteGroup(doc, els[k])]

\* exportForms: the text read for tab element e: description of the first
\* child of element.querySelector("labels"), "" when there is none
TabText(doc, e) ==
  LET labels == QuerySelector(doc, e, "labels")
  IN IF labels = 0 \/ doc[labels].caps = <<>> THEN "" ELSE doc[labels].caps[1].text

\* exportForms: one tab element of one form snapshot put into table.tabs
AddTab(tabs, form, e) ==
  LET entry == LangTranslation(form.lang, TabText(form.xml, e))
      hits == {k \in DOMAIN tabs : tabs[k].id = form.xml[e].id}
  IN IF hits # {}
     THEN [tabs EXCEPT ![Min(hits)].translation = Append(@, entry)]
     ELSE Append(tabs, [id |-> form.xml[e].id, formId |-> form.id, el |-> e,
                        translation |-> <<entry>>])

RECURSIVE AddTabsOf(_, _, _)
AddTabsOf(tabs, form, els) ==
  IF els = <<>> THEN tabs
  ELSE AddTabsOf(AddTab(tabs, form, Head(els)), form, Tail(els))

\* table.forms.forEach(form => Array.from(tabs).forEach(...))
RECURSIVE AddTabsOfForms(_, _, _)
AddTabsOfForms(tabs, forms, i) ==
  IF i > Len(forms) THEN tabs
  ELSE AddTabsOfForms(AddTabsOf(tabs, forms[i],
                                InOrder(ElementsByTagName(forms[i].xml, "tab"))),
                      forms, i + 1)

\* getForms(table, lang, base): one snapshot per form of the repository
FormSnapshots(docs, lang, base) ==
  [k \in DOMAIN docs |-> [id |-> docs[k].id, xml |-> docs[k].xml, lang |-> lang,
                          base |-> base]]

\* getViews(table): the views of the repository
ViewsOfRepo(n) == [k \in 1..n |-> [id |-> k]]

\* the data rows of one run: view rows, tab rows, area rows, group rows
RowsOfRun ==
  [views  |-> [k \in DOMAIN sw.views |-> sw.views[k].id],
   tabs   |-> [k \in DOMAIN sw.tabs |->
                 <<sw.tabs[k].id, sw.tabs[k].formId,
                   [j \in DOMAIN sw.tabs[k].translation |->
                      sw.tabs[k].translation[j].translation]>>],
   areas  |-> [k \in DOMAIN sw.siteAreas |-> sw.siteAreas[k].id],
   groups |-> [k \in DOMAIN sw.siteGroups |-> sw.siteGroups[k].id]]

InitRuns ==
  /\ ImportIdle
  /\ gr = [pc |-> "off"]
  /\ ex = [pc |-> "off"]
  /\ \E n \in 1..MaxViews, docs \in FormMenus, sm \in {SiteMapM1, SiteMapM2},
        langs \in LangLists, base \in Codes :
       sw = [pc |-> "views", run |-> 1, repoViews |-> n, formDocs |-> docs,
             siteMap |-> sm, base |-> base, outputLangs |-> OutputLangs(langs, base),
             li |-> 1, views |-> <<>>, forms |-> <<>>, tabs |-> <<>>,
             siteAreas |-> <<>>, siteGroups |-> <<>>, out |-> <<>>]

\* exportViews: getViews pushes to table.views
RunViews ==
  /\ sw.pc = "views"
  /\ sw' = [sw EXCEPT !.pc = "forms", !.li = 1,
                      !.views = @ \o ViewsOfRepo(sw.repoViews)]
  /\ UNCHANGED <<importVars, gr, ex>>

\* exportForms: one iteration of "for (const lang of this.outputLangs)"
RunForms ==
  /\ sw.pc = "forms"
  /\ sw.li <= Len(sw.outputLangs)
  /\ sw' = [sw EXCEPT !.li = @ + 1,
                      !.forms = @ \o FormSnapshots(sw.formDocs, sw.outputLangs[sw.li],
                                                   sw.outputLangs[sw.li] = sw.base)]
  /\ UNCHANGED <<importVars, gr, ex>>

\* exportForms: the Forms Tabs sheet
RunTabs ==
  /\ sw.pc = "forms"
  /\ sw.li > Len(sw.outputLangs)
  /\ sw' = [sw EXCEPT !.pc = "sitemap", !.tabs = AddTabsOfForms(sw.tabs, sw.forms, 1)]
  /\ UNCHANGED <<importVars, gr, ex>>

\* exportSiteMap: vm.siteAreas.push, vm.siteGroups.push
RunSiteMap ==
  /\ sw.pc = "sitemap"
  /\ sw' = [sw EXCEPT !.pc = "rows",
                      !.siteAreas = @ \o SiteAreas(sw.siteMap),
                      !.siteGroups = @ \o SiteGroups(sw.siteMap)]
  /\ UNCHANGED <<importVars, gr, ex>>

\* the workbook of the run is written
RunRows ==
  /\ sw.pc = "rows"
  /\ sw' = [sw EXCEPT !.pc = "done", !.out = Append(@, RowsOfRun)]
  /\ UNCHANGED <<importVars, gr, ex>>

\* the operator exports again
RunAgain ==
  /\ sw.pc = "done"
  /\ sw.run < MaxRuns
  /\ sw' = [sw EXCEPT !.pc = "views", !.run = @ + 1]
  /\ UNCHANGED <<importVars, gr, ex>>

NextRuns == RunViews \/ RunForms \/ RunTabs \/ RunSiteMap \/ RunRows \/ RunAgain

SpecRuns == InitRuns /\ [][NextRuns]_vars

\* C14: a second export on the same view model writes the rows the first
\* one wrote: nothing the first run left behind adds, duplicates or moves a
\* row.
C14_ExportRepeatable ==
  \A r \in 2..Len(sw.out) : sw.out[r] = sw.out[1]

\* a translation list with at most one entry per language code
OnePerLanguage(translation) ==
  \A i, j \in DOMAIN translation :
     translation[i].code = translation[j].code => i = j

\* C15: at every point of every sequence of export runs, each label set of
\* every node (the tabs accumulated over the language snapshots, the site
\* map areas and groups) holds at most one translation entry per language.
C15_OneEntryPerLanguage ==
  /\ \A k \in DOMAIN sw.tabs : OnePerLanguage(sw.tabs[k].translation)
  /\ \A k \in DOMAIN sw.siteAreas :
        OnePerLanguage(sw.siteAreas[k].title) /\ OnePerLanguage(sw.siteAreas[k].description)
  /\ \A k \in DOMAIN sw.siteGroups :
        OnePerLanguage(sw.siteGroups[k].title) /\ OnePerLanguage(sw.siteGroups[k].description)

\* C16: the captions extracted for a site map area or group are those of the
\* container that is its direct child, and none when it has no such child;
\* the text extracted for a tab is that of its own labels child.
C16_DirectChildBinding ==
  sw.run = 1 =>
    /\ \A k \in DOMAIN sw.siteAreas :
         LET a == sw.siteAreas[k].el
         IN /\ sw.siteAreas[k].title =
                 CaptionsOf(sw.siteMap, QuerySelectorChild(sw.siteMap, a, "Titles"))
            /\ sw.siteAreas[k].description =
                 CaptionsOf(sw.siteMap, QuerySelectorChild(sw.siteMap, a, "Descriptions"))
    /\ \A k \in DOMAIN sw.siteGroups :
         LET g == sw.siteGroups[k].el
         IN /\ sw.siteGroups[k].title =
                 CaptionsOf(sw.siteMap, QuerySelectorChild(sw.siteMap, g, "Titles"))
            /\ sw.siteGroups[k].description =
                 CaptionsOf(sw.siteMap, QuerySelectorChild(sw.siteMap, g, "Descriptions"))
    /\ \A k \in DOMAIN sw.tabs :
         \A d \in DOMAIN sw.formDocs :
            sw.formDocs[d].id = sw.tabs[k].formId =>
               LET doc == sw.formDocs[d].xml
                   own == QuerySelectorChild(doc, sw.tabs[k].el, "labels")
               IN sw.tabs[k].translation[1].translation =
                     (IF own = 0 \/ doc[own].caps = <<>> THEN "" ELSE doc[own].caps[1].text)

-----------------------------------------------------------------------------
(* One patch of a layout document: the lookup of the element a row names   *)
(* and the rewrite of its caption container. Record ex = [pc, kind, doc,   *)
(* tag, elementId, type, labels, target, out].                             *)

\* form f3: the name of the first tab is the id of the second
FormF3 ==
  << Node("form", "", "", 0, <<>>),
     Node("tab", "t1", "t2", 1, <<>>),
     Node("labels", "", "", 2, <<Cap(1033, "First")>>),
     Node("tab", "t2", "admin", 1, <<>>),
     Node("labels", "", "", 4, <<Cap(1033, "Second")>>) >>

\* the dictionaries a row can carry: never empty
PatchDicts ==
  { [c \in S |-> LabelText(c)] :
      S \in {T \in SUBSET Codes : T # {} /\ Cardinality(T) <= MaxLangs} }

InitPatch ==
  /\ ImportIdle
  /\ sw = [pc |-> "off"]
  /\ gr = [pc |-> "off"]
  /\ \E labels \in PatchDicts :
       \/ \E doc \in {FormF1, FormF2, FormF3}, ct \in {"tab", "section", "field"},
             id \in {"t1", "t2", "s1", "c1", "general", "zz"} :
            ex = [pc |-> "find", kind |-> "form", doc |-> doc, tag |-> ct,
                  elementId |-> id, type |-> "Label", labels |-> labels,
                  target |-> 0, out |-> <<>>]
       \/ \E doc \in {SiteMapM1, SiteMapM2}, et \in {"Area", "Group", "SubArea"},
             id \in {"a1", "a2", "g1", "s1", "zz"}, type \in {"Title", "Description"} :
            ex = [pc |-> "find", kind |-> "sitemap", doc |-> doc, tag |-> et,
                  elementId |-> id, type |-> type, labels |-> labels,
                  target |-> 0, out |-> <<>>]

\* prepareFormContent: the loop over the elements of the tag; "return" when
\* it finds none
PatchFindForm ==
  /\ ex.pc = "find" /\ ex.kind = "form"
  /\ LET e == FindFormElement(ex.doc, ex.tag, ex.elementId)
     IN ex' = [ex EXCEPT !.target = e, !.pc = IF e = 0 THEN "skipped" ELSE "patch"]
  /\ UNCHANGED <<importVars, sw, gr>>

\* prepareFormContent: labels element, clear, re-add, serialize
PatchForm ==
  /\ ex.pc = "patch" /\ ex.kind = "form"
  /\ ex' = [ex EXCEPT !.pc = "done",
                      !.out = PatchFormElement(ex.doc, ex.target, ex.labels)]
  /\ UNCHANGED <<importVars, sw, gr>>

\* prepareSiteMapContent: the loop over the elements of the type
PatchFindSiteMap ==
  /\ ex.pc = "find" /\ ex.kind = "sitemap"
  /\ LET e == FindSiteMapElement(ex.doc, ex.tag, ex.elementId)
     IN ex' = [ex EXCEPT !.target = e, !.pc = IF e = 0 THEN "skipped" ELSE "patch"]
  /\ UNCHANGED <<importVars, sw, gr>>

\* prepareSiteMapContent: container, clear, re-add, serialize
PatchSiteMap ==
  /\ ex.pc = "patch" /\ ex.kind = "sitemap"
  /\ ex' = [ex EXCEPT !.pc = "done",
                      !.out = PatchSiteMapElement(ex.doc, ex.target, ex.type, ex.labels)]
  /\ UNCHANGED <<importVars, sw, gr>>

NextPatch == PatchFindForm \/ PatchForm \/ PatchFindSiteMap \/ PatchSiteMap

SpecPatch == InitPatch /\ [][NextPatch]_vars

\* elements of the row's tag with that id, and with that name
ElementsWithId ==
  {i \in ElementsByTagName(ex.doc, FormTagName(ex.tag)) : ex.doc[i].id = ex.elementId}
ElementsWithName ==
  {i \in ElementsByTagName(ex.doc, FormTagName(ex.tag)) : ex.doc[i].name = ex.elementId}

\* C17: the form patch goes to the first element of the tag whose id is the
\* row's element id, and to the first element with that name only when no
\* element has that id.
C17_PatchTargetLookup ==
  (ex.kind = "form" /\ ex.pc \in {"patch", "done", "skipped"}) =>
     ex.target = (IF ElementsWithId # {} THEN Min(ElementsWithId)
                  ELSE IF ElementsWithName # {} THEN Min(ElementsWithName)
                  ELSE 0)

CaptionTags == {"labels", "Titles", "Descriptions"}

\* the caption containers of a document, each with the element that owns it
ContainersOf(doc) ==
  { [ownerTag |-> doc[doc[c].parent].tag, ownerId |-> doc[doc[c].parent].id,
     tag |-> doc[c].tag, caps |-> doc[c].caps] :
      c \in {i \in 1..Len(doc) : doc[i].tag \in CaptionTags /\ doc[i].parent # 0} }

\* the tag of the container a patch is to rewrite
PatchedTag == IF ex.kind = "form" THEN "labels" ELSE ContainerName(ex.type)

\* the container is that of the patched element
IsOwnContainer(c) ==
  /\ c.ownerTag = ex.doc[ex.target].tag
  /\ c.ownerId = ex.doc[ex.target].id
  /\ c.tag = PatchedTag

\* C18: after a patch the element's own container holds one caption per
\* language of the dictionary and nothing else, and every other container of
\* the document, those of nested elements included, is as it was.
C18_PatchEffectAndFrame ==
  ex.pc = "done" =>
     ContainersOf(ex.out) =
        {c \in ContainersOf(ex.doc) : ~IsOwnContainer(c)}
        \cup {[ownerTag |-> ex.doc[ex.target].tag, ownerId |-> ex.doc[ex.target].id,
               tag |-> PatchedTag, caps |-> Entries(ex.labels)]}

\* the containers of one tag
ContainersTagged(doc, tag) == {c \in ContainersOf(doc) : c.tag = tag}

\* C19: a site map row of Type "Description" leaves every Titles container
\* as it was, creates none, and writes the Descriptions child of its target;
\* a row of Type "Title" leaves every Descriptions container as it was and
\* writes the Titles child of its target.
C19_QualifierRouting ==
  (ex.pc = "done" /\ ex.kind = "sitemap") =>
     LET written == IF ex.type = "Description" THEN "Descriptions" ELSE "Titles"
         other   == IF ex.type = "Description" THEN "Titles" ELSE "Descriptions"
         e       == FindSiteMapElement(ex.out, ex.tag, ex.elementId)
         own     == QuerySelectorChild(ex.out, e, written)
     IN /\ ContainersTagged(ex.out, other) = ContainersTagged(ex.doc, other)
        /\ own # 0
        /\ ex.out[own].caps = Entries(ex.labels)
        /\ \A c \in ContainersTagged(ex.out, written) :
              c \in ContainersTagged(ex.doc, written)
              \/ (c.ownerTag = ex.tag /\ c.ownerId = ex.elementId)

\* a Description row has patched an element that had neither container
C19_Witness ==
  /\ ex.pc = "done" /\ ex.kind = "sitemap" /\ ex.type = "Description"
  /\ QuerySelectorChild(ex.doc, ex.target, "Titles") = 0
  /\ QuerySelectorChild(ex.doc, ex.target, "Descriptions") = 0
  /\ QuerySelector(ex.doc, ex.target, "Titles") # 0

-----------------------------------------------------------------------------
(* Import run without a connection                                         *)

-----------------------------------------------------------------------------
(* An export run, exporter by exporter (exportTranslations). Record        *)
(* ex = [pc, step, tables, relationships, labelOptions, optionSets,        *)
(* exporting, sheets, failed, outcome]; a sheet lists the tables whose     *)
(* rows it holds.                                                          *)

\* the exporters in the order exportTranslations awaits them
ExportSteps ==
  <<"Entities", "Attributes", "Relationships", "OptionSets", "Booleans", "Views",
    "Charts", "Forms", "SiteMap", "Dashboards">>

\* exporters that fetch per selected table inside one Promise.all
TableSteps == {"Entities", "Attributes", "OptionSets", "Booleans", "Views", "Charts", "Forms"}

\* no fetch has failed
NoFailure == [step |-> "", table |-> 0]

InitExport ==
  /\ ImportIdle
  /\ sw = [pc |-> "off"]
  /\ gr = [pc |-> "off"]
  /\ \E n \in 1..MaxTables, rel \in BOOLEAN, os \in BOOLEAN,
        lo \in {"both", "names", "descriptions"} :
       ex = [pc |-> "idle", step |-> 0, tables |-> n, relationships |-> rel,
             labelOptions |-> lo, optionSets |-> os, exporting |-> FALSE,
             sheets |-> <<>>, failed |-> NoFailure, outcome |-> "none"]

\* "catch (err) { onLog; return Promise.reject(err) }" of exportTranslations
ExportRejected(step, table) ==
  [ex EXCEPT !.pc = "settled", !.outcome = "rejected",
             !.failed = [step |-> step, table |-> table]]

\* "this.vm.exporting = true" up to await getBaseLanguage()
ExportBegin ==
  /\ ex.pc = "idle"
  /\ ex' = [ex EXCEPT !.pc = "base", !.exporting = TRUE]
  /\ UNCHANGED <<importVars, sw, gr>>

\* getBaseLanguage answers or rejects
ExportBaseLanguage ==
  /\ ex.pc = "base"
  /\ \/ ex' = [ex EXCEPT !.pc = "step", !.step = 1]
     \/ ex' = ExportRejected("base", 0)
  /\ UNCHANGED <<importVars, sw, gr>>

\* an exporter that awaits Promise.all over the selected tables (no catch):
\* all fetches answer and the sheet gets the rows of every table, or the
\* fetch of table t rejects and the rejection leaves exportTranslations
ExportTableSheet ==
  /\ ex.pc = "step" /\ ex.step <= Len(ExportSteps)
  /\ ExportSteps[ex.step] \in TableSteps
  /\ LET name == ExportSteps[ex.step] IN
       IF name = "OptionSets" /\ ~ex.optionSets
       THEN ex' = [ex EXCEPT !.step = @ + 1]
       ELSE \E t \in 0..ex.tables :
              ex' = IF t = 0
                    THEN [ex EXCEPT !.step = @ + 1,
                                    !.sheets = Append(@, [name |-> name,
                                                          tables |-> 1..ex.tables])]
                    ELSE ExportRejected(name, t)
  /\ UNCHANGED <<importVars, sw, gr>>

\* exportRelationships: "new Promise(async (resolve, reject) => ...)"; the
\* early "return" settles nothing
ExportRelationships ==
  /\ ex.pc = "step" /\ ex.step <= Len(ExportSteps)
  /\ ExportSteps[ex.step] = "Relationships"
  /\ IF ~ex.relationships \/ ex.labelOptions = "descriptions"
     THEN ex' = [ex EXCEPT !.pc = "pending"]
     ELSE \E t \in 0..ex.tables :
            ex' = IF t = 0
                  THEN [ex EXCEPT !.step = @ + 1,
                                  !.sheets = Append(@, [name |-> "Relationships",
                                                        tables |-> 1..ex.tables])]
                  ELSE ExportRejected("Relationships", t)
  /\ UNCHANGED <<importVars, sw, gr>>

\* exportSiteMap, exportDashboards: one fetch for the solution
ExportSolutionSheet ==
  /\ ex.pc = "step" /\ ex.step <= Len(ExportSteps)
  /\ ExportSteps[ex.step] \in {"SiteMap", "Dashboards"}
  /\ \/ ex' = [ex EXCEPT !.step = @ + 1,
                         !.sheets = Append(@, [name |-> ExportSteps[ex.step],
                                               tables |-> {}])]
     \/ ex' = ExportRejected(ExportSteps[ex.step], 0)
  /\ UNCHANGED <<importVars, sw, gr>>

\* writeBuffer, downloadBlob, "this.vm.exporting = false"
ExportWrite ==
  /\ ex.pc = "step" /\ ex.step > Len(ExportSteps)
  /\ ex' = [ex EXCEPT !.pc = "settled", !.outcome = "resolved", !.exporting = FALSE]
  /\ UNCHANGED <<importVars, sw, gr>>

NextExport ==
  \/ ExportBegin
  \/ ExportBaseLanguage
  \/ ExportTableSheet
  \/ ExportRelationships
  \/ ExportSolutionSheet
  \/ ExportWrite

SpecExport == InitExport /\ [][NextExport]_vars

\* every step that can be taken is taken
SpecExportLive == SpecExport /\ WF_vars(NextExport)

\* C21: when the fetch for one table fails, the export still resolves and
\* its workbook holds, in every sheet but the one whose fetch failed, the
\* rows of all tables, and in that sheet the rows of all other tables.
C21_FetchFailureOmitsOneNode ==
  (ex.pc = "settled" /\ ex.failed.table # 0) =>
     /\ ex.outcome = "resolved"
     /\ \A i \in 1..Len(ex.sheets) :
          (1..ex.tables) \ {ex.failed.table} \subseteq ex.sheets[i].tables

\* C25: whatever the options and the label filter, an export run eventually
\* settles: it resolves after the workbook is written or it rejects.
C25_ExportSettles == <>(ex.pc = "settled")

\* C26: once an export run has settled, by success or by failure, the
\* exporting flag of the view model is false.
C26_BusyFlagReleased == ex.pc = "settled" => ~ex.exporting

-----------------------------------------------------------------------------
(* Failure counting of the dispatch loops                                  *)

\* the calls the dispatch loop of the current sheet has issued and seen
\* settled: one per unit before unitIdx, the last ones of the history
CallsOfSheet == {i \in 1..Len(calls) : i > Len(calls) - (unitIdx - 1)}

\* C22: in the dispatch loop of a sheet the count reported as updated is the
\* number of units whose repository write succeeded; a unit whose write the
\* repository rejected is not counted.
C22_ProcessedCountsSuccesses ==
  pc = "units" =>
     processed = Cardinality({i \in CallsOfSheet : calls[i].status = "ok"})

\* C23: the progress of a group is a fraction between 0 and 1, and it is 0
\* whenever a group has ended: at the head of the sheet loop and at the end
\* of the run, however the group before ended.
C23_ProgressResetBetweenGroups ==
  /\ vmBatchProgress[2] > 0
  /\ 0 <= vmBatchProgress[1] /\ vmBatchProgress[1] <= vmBatchProgress[2]
  /\ pc \in {"sheet", "done"} => vmBatchProgress[1] = 0

-----------------------------------------------------------------------------
(* Column layout: the header and a data row as the exporter of a sheet     *)
(* kind writes them, and the cells the importer of that kind reads. A      *)
(* cell holds the name of the field the exporter put there. Record         *)
(* gr = [pc, kind, outputLangs, header, row, read].                        *)

LayoutKinds ==
  {"Entities", "Views", "Local OptionSets", "Global OptionSets", "Forms Tabs",
   "Dashboards Tabs", "Dashboards Sections"}

\* wsheet.addRow([...]) of the header: the columns before the languages
ExportedColumns(kind) ==
  CASE kind = "Entities" -> <<"Entity Id", "Entity Logical Name", "Type">>
    [] kind = "Views" -> <<"View Id", "Entity Logical Name", "View Type", "Type">>
    [] kind = "Local OptionSets" ->
         <<"Attribute Id", "Entity Logical Name", "Attribute Logical Name",
           "Attribute Type", "Value", "Type">>
    [] kind = "Global OptionSets" -> <<"OptionSet Id", "OptionSet Name", "Value", "Type">>
    [] kind = "Forms Tabs" ->
         <<"Tab Id", "Entity Logical Name", "Form Name", "Form Unique Id", "Form Id">>
    [] kind = "Dashboards Tabs" ->
         <<"Tab Id", "Form Name test", "Form Unique Id", "Form Id">>
    [] OTHER -> <<"Section Id", "Form Name", "Form Unique Id", "Form Id", "Tab Name">>

\* const row = [...]: the fields before the language cells
ExportedFields(kind) ==
  CASE kind = "Entities" -> <<"id", "name", "type">>
    [] kind = "Views" -> <<"id", "entity", "viewType", "type">>
    [] kind = "Local OptionSets" ->
         <<"id", "entity", "attribute", "attributeType", "value", "type">>
    [] kind = "Global OptionSets" ->
         <<"id", "entity", "attribute", "attributeType", "value", "type">>
    [] kind = "Forms Tabs" -> <<"elementId", "entity", "formName", "formUniqueId", "formId">>
    [] kind = "Dashboards Tabs" -> <<"elementId", "formName", "formUniqueId", "formId">>
    [] OTHER -> <<"elementId", "formName", "formUniqueId", "formId", "tabName">>

\* row.getCell(n) of the importer: the column it reads each field from
ImportedColumns(kind) ==
  CASE kind = "Entities" -> [name |-> 2, type |-> 3]
    [] kind = "Views" -> [id |-> 1, type |-> 4]
    [] kind = "Local OptionSets" -> [entity |-> 2, attribute |-> 3, value |-> 5, type |-> 6]
    [] kind = "Global OptionSets" -> [optionSetName |-> 2, value |-> 3, type |-> 4]
    [] OTHER -> [elementId |-> 1, formId |-> 5]

\* the first language column of the importer
ImportedLangStart(kind, sheet) ==
  CASE kind = "Entities" -> 4
    [] kind = "Views" -> 5
    [] kind = "Local OptionSets" -> 7
    [] kind = "Global OptionSets" -> 5
    [] OTHER -> DetectLangStartCol(sheet, 6)

InitLayout ==
  /\ ImportIdle
  /\ sw = [pc |-> "off"]
  /\ ex = [pc |-> "off"]
  /\ \E kind \in LayoutKinds, langs \in LangLists, base \in Codes :
       gr = [pc |-> "export", kind |-> kind, outputLangs |-> OutputLangs(langs, base),
             header |-> <<>>, row |-> <<>>, read |-> <<>>]

\* the exporter writes the header and one data row; the language cell of a
\* row names its language
LayoutExport ==
  /\ gr.pc = "export"
  /\ LET codes == [i \in DOMAIN gr.outputLangs |-> CodeCell(gr.outputLangs[i])]
     IN gr' = [gr EXCEPT !.pc = "import",
                         !.header = ExportedColumns(gr.kind) \o codes,
                         !.row = ExportedFields(gr.kind) \o codes]
  /\ UNCHANGED <<importVars, sw, ex>>

\* the importer reads its fields and the first language cell of the row
LayoutImport ==
  /\ gr.pc = "import"
  /\ LET cols == ImportedColumns(gr.kind)
         start == ImportedLangStart(gr.kind, Sheet(gr.kind, <<gr.header, gr.row>>, FALSE))
     IN gr' = [gr EXCEPT !.pc = "done",
                         !.read = [fields |-> [f \in DOMAIN cols |-> GetCell(gr.row, cols[f])],
                                   firstLanguage |-> GetCell(gr.row, start)]]
  /\ UNCHANGED <<importVars, sw, ex>>

NextLayout == LayoutExport \/ LayoutImport

SpecLayout == InitLayout /\ [][NextLayout]_vars

\* the name the exporter gives the field the importer reads
ExportedNameOf(f) == IF f = "optionSetName" THEN "optionSet" ELSE f

\* C24: in every sheet kind a data row has as many identity cells as the
\* header has identity columns, and the importer finds each identity field
\* and the first language cell in the column the exporter wrote it to.
C24_ColumnAgreement ==
  gr.pc = "done" =>
     /\ Len(ExportedFields(gr.kind)) = Len(ExportedColumns(gr.kind))
     /\ \A f \in DOMAIN gr.read.fields : gr.read.fields[f] = ExportedNameOf(f)
     /\ gr.read.firstLanguage = CodeCell(gr.outputLangs[1])

-----------------------------------------------------------------------------
(* Locale switches of the export sweep                                     *)

\* getUserLanguage has answered before call j of the run
RecordedBefore(j) ==
  \E k \in 1..(j - 1) : sw.calls[k].op = "getUserLanguage" /\ sw.calls[k].status = "ok"

\* C27: every locale switch of an export run, the final revert included,
\* passes the user id, and the revert the locale, that getUserLanguage
\* recorded earlier in the run; a run that exports neither forms nor
\* dashboards issues no locale switch.
C27_SwitchOnlyWithRecordedLocale ==
  /\ \A j \in 1..Len(sw.calls) :
        sw.calls[j].op = "updateLanguage" =>
           /\ RecordedBefore(j)
           /\ sw.calls[j].user # ""
           /\ sw.calls[j].iter = 0 => sw.calls[j].lang # NoLocale
  /\ ~(sw.formsExport \/ sw.dashboards) =>
        \A j \in 1..Len(sw.calls) : sw.calls[j].op # "updateLanguage"

-----------------------------------------------------------------------------
(* Label alignment: the language columns of an Entities header, some of    *)
(* whose cells may be empty, and the dictionary readLabels returns for a   *)
(* data row. Record sw = [pc, header, row, lcids, labels].                 *)

\* language columns of the sheet
MaxColumns == 3

\* header cells from the language start on: codes, each at most once, and
\* empty cells, with a code in the last column
AlignHeaders ==
  { h \in UNION {[1..n -> {"1031", "1033", "1036", Null}] : n \in 1..MaxColumns} :
      /\ h[Len(h)] # Null
      /\ \A i, j \in DOMAIN h : (i # j /\ h[i] # Null) => h[i] # h[j] }

\* the text a data row holds in language column i, when it holds one
AlignText(i) == CASE i = 1 -> "first" [] i = 2 -> "second" [] i = 3 -> "third"
                  [] OTHER -> "further"

InitAlign ==
  /\ ImportIdle
  /\ gr = [pc |-> "off"]
  /\ ex = [pc |-> "off"]
  /\ \E h \in AlignHeaders, filled \in SUBSET (1..MaxColumns) :
       sw = [pc |-> "lcids",
             header |-> <<"Entity Id", "Entity Logical Name", "Type">> \o h,
             row |-> <<"{e1}", "account", "DisplayName">> \o
                     [i \in DOMAIN h |-> IF i \in filled THEN AlignText(i) ELSE ""],
             lcids |-> <<>>, labels |-> EmptyDict]

\* "const lcids = this.getLanguageColumns(sheet, 4)"
AlignLcids ==
  /\ sw.pc = "lcids"
  /\ sw' = [sw EXCEPT !.pc = "read",
                      !.lcids = GetLanguageColumns(Sheet("Entities", <<sw.header, sw.row>>,
                                                         FALSE), 4)]
  /\ UNCHANGED <<importVars, gr, ex>>

\* "const labels = this.readLabels(row, 4, lcids)"
AlignRead ==
  /\ sw.pc = "read"
  /\ sw' = [sw EXCEPT !.pc = "done", !.labels = ReadLabels(sw.row, 4, sw.lcids)]
  /\ UNCHANGED <<importVars, gr, ex>>

NextAlign == AlignLcids \/ AlignRead

SpecAlign == InitAlign /\ [][NextAlign]_vars

\* C28: for every language column of the header, the dictionary maps the
\* code of that column to the text of the row's cell in that same column
\* when the cell is not empty, and has no entry for the code when it is;
\* also when a header cell of the language block is empty.
C28_LabelUnderItsColumn ==
  sw.pc = "done" =>
     \A c \in 4..Len(sw.header) :
        sw.header[c] # Null =>
           LET code == NumberOf(sw.header[c])
               cell == GetCell(sw.row, c)
           IN IF cell # Null /\ Trim(cell) # ""
              THEN code \in DOMAIN sw.labels /\ sw.labels[code] = cell
              ELSE code \notin DOMAIN sw.labels

-----------------------------------------------------------------------------
(* Option set loading of one table over export runs: getOptionSets and     *)
(* getBooleans in the order the selected options make the runs call them.  *)
(* Record gr = [pc, picklist, boolean, optionSets, log].                   *)

\* loader calls on the table
MaxLoads == 4

\* options of the picklist attribute of the table
MaxOptions == 2

\* the entry pushed for one option
OptionDef(type, value) == [type |-> type, value |-> value]

\* getOptionSets: one entry per option of the picklist attribute, unless the
\* list of the table holds anything
GetOptionSets(optionSets, n) ==
  IF Len(optionSets) > 0 THEN optionSets
  ELSE optionSets \o [v \in 1..n |-> OptionDef("Picklist", v)]

\* getBooleans: the True and the False option of the boolean attribute,
\* unless the list holds a Boolean entry
GetBooleans(optionSets, has) ==
  IF \E i \in DOMAIN optionSets : optionSets[i].type = "Boolean" THEN optionSets
  ELSE IF has THEN optionSets \o <<OptionDef("Boolean", 1), OptionDef("Boolean", 0)>>
  ELSE optionSets

InitOptions ==
  /\ ImportIdle
  /\ sw = [pc |-> "off"]
  /\ ex = [pc |-> "off"]
  /\ \E n \in 0..MaxOptions, has \in BOOLEAN :
       gr = [pc |-> "loading", picklist |-> n, boolean |-> has, optionSets |-> <<>>,
             log |-> <<>>]

\* exportOptionSets of a run with option sets selected
LoadOptionSets ==
  /\ gr.pc = "loading" /\ Len(gr.log) < MaxLoads
  /\ gr' = [gr EXCEPT !.optionSets = GetOptionSets(@, gr.picklist),
                      !.log = Append(@, "getOptionSets")]
  /\ UNCHANGED <<importVars, sw, ex>>

\* exportBooleans of a run
LoadBooleans ==
  /\ gr.pc = "loading" /\ Len(gr.log) < MaxLoads
  /\ gr' = [gr EXCEPT !.optionSets = GetBooleans(@, gr.boolean),
                      !.log = Append(@, "getBooleans")]
  /\ UNCHANGED <<importVars, sw, ex>>

NextOptions == LoadOptionSets \/ LoadBooleans

SpecOptions == InitOptions /\ [][NextOptions]_vars

\* how often the list holds the entry
TimesIn(optionSets, def) == Cardinality({i \in DOMAIN optionSets : optionSets[i] = def})

\* C29: once both loaders have completed, in either order and however often,
\* the list of the table holds each picklist option and each boolean option
\* of the table exactly once.
C29_OptionSetsLoadedOnce ==
  (\E i, j \in DOMAIN gr.log : gr.log[i] = "getOptionSets" /\ gr.log[j] = "getBooleans") =>
     /\ \A v \in 1..gr.picklist : TimesIn(gr.optionSets, OptionDef("Picklist", v)) = 1
     /\ gr.boolean => /\ TimesIn(gr.optionSets, OptionDef("Boolean", 1)) = 1
                      /\ TimesIn(gr.optionSets, OptionDef("Boolean", 0)) = 1

-----------------------------------------------------------------------------
(* updateRelationshipLabel: query, merge of the labels into the associated *)
(* menu configurations, update. A configuration is [present, labelled,     *)
(* labels]; record ex = [pc, found, rel, relationType, labels, calls].     *)

\* the localized labels a configuration holds: distinct codes
ExistingLabels ==
  { [i \in DOMAIN l |-> [code |-> l[i], text |-> "old"]] :
      l \in { m \in UNION {[1..n -> Codes] : n \in 0..MaxLabels} :
                \A i, j \in DOMAIN m : i # j => m[i] # m[j] } }

MenuConfig(present, labelled, labels) ==
  [present |-> present, labelled |-> labelled, labels |-> labels]

NoConfig == MenuConfig(FALSE, FALSE, <<>>)

\* the relationship definitions the repository can return
Relationships ==
  { [amc |-> MenuConfig(TRUE, lab, l), e1 |-> NoConfig, e2 |-> NoConfig] :
      lab \in BOOLEAN, l \in ExistingLabels }
  \cup
  { [amc |-> NoConfig, e1 |-> MenuConfig(TRUE, TRUE, l),
     e2 |-> MenuConfig(TRUE, lab, <<>>)] : lab \in BOOLEAN, l \in ExistingLabels }

\* a merge that adds a label for the code without looking for one
MergeLabelAppend(list, code, text) == Append(list, [code |-> code, text |-> text])

\* "existingLabel ? existingLabel.Label = labelText : LocalizedLabels.push"
MergeLabel(list, code, text) ==
  LET hits == {i \in DOMAIN list : list[i].code = code}
  IN IF hits # {} THEN [list EXCEPT ![Min(hits)].text = text]
     ELSE Append(list, [code |-> code, text |-> text])

\* Object.entries(labels).forEach over the labels of one configuration
RECURSIVE MergeEntries(_, _)
MergeEntries(list, entries) ==
  IF entries = <<>> THEN list
  ELSE MergeEntries(MergeLabel(list, Head(entries).code, Head(entries).text),
                    Tail(entries))

\* the configuration after the merge, when it is selected and has labels
MergeConfig(cfg, selected, labels) ==
  IF selected /\ cfg.present /\ cfg.labelled
  THEN [cfg EXCEPT !.labels = MergeEntries(@, Entries(labels))]
  ELSE cfg

\* menuConfigs.forEach over the configurations the relation type selects
MergeRelationship(rel, relationType, labels) ==
  LET mn == relationType = "ManyToManyRelationship"
  IN [amc |-> MergeConfig(rel.amc, ~mn, labels),
      e1  |-> MergeConfig(rel.e1, mn, labels),
      e2  |-> MergeConfig(rel.e2, mn, labels)]

InitMerge ==
  /\ ImportIdle
  /\ sw = [pc |-> "off"]
  /\ gr = [pc |-> "off"]
  /\ \E found \in BOOLEAN, rel \in Relationships, labels \in PatchDicts,
        type \in {"ManyToManyRelationship", "OneToManyRelationship"} :
       ex = [pc |-> "query", found |-> found, rel |-> rel, relationType |-> type,
             labels |-> labels, calls |-> <<>>]

\* the query answers: "not found" is thrown, or the labels are merged and
\* updateRelationship is called
MergeQuery ==
  /\ ex.pc = "query"
  /\ IF ~ex.found
     THEN ex' = [ex EXCEPT !.pc = "failed"]
     ELSE ex' = [ex EXCEPT !.pc = "updateWait",
                           !.calls = Append(@, [op |-> "updateRelationship",
                                                rel |-> MergeRelationship(ex.rel,
                                                          ex.relationType, ex.labels),
                                                status |-> "pending"])]
  /\ UNCHANGED <<importVars, sw, gr>>

\* the repository answers the update; a rejection is logged by the wrapper
MergeAnswer ==
  /\ ex.pc = "updateWait"
  /\ \E status \in {"ok", "rejected"} :
       ex' = [ex EXCEPT !.pc = "resolved", !.calls[1].status = status]
  /\ UNCHANGED <<importVars, sw, gr>>

NextMerge == MergeQuery \/ MergeAnswer

SpecMerge == InitMerge /\ [][NextMerge]_vars

\* the entries of a label list whose code is not among the given ones
RECURSIVE LabelsOutside(_, _)
LabelsOutside(list, codes) ==
  IF list = <<>> THEN <<>>
  ELSE IF Head(list).code \in codes THEN LabelsOutside(Tail(list), codes)
  ELSE <<Head(list)>> \o LabelsOutside(Tail(list), codes)

\* the configuration was merged as the claim says
MergedAsRequired(before, after) ==
  /\ \A code \in DOMAIN ex.labels :
        /\ Cardinality({i \in DOMAIN after.labels : after.labels[i].code = code}) = 1
        /\ \E i \in DOMAIN after.labels :
              after.labels[i].code = code /\ after.labels[i].text = ex.labels[code]
  /\ LabelsOutside(after.labels, DOMAIN ex.labels)
       = LabelsOutside(before.labels, DOMAIN ex.labels)

\* C30: every configuration the call updates holds, for each code of the
\* dictionary, exactly one label with that code and the given text, and its
\* labels of other codes as before; a configuration that is not updated is
\* as before; when the relationship does not exist the call fails and no
\* update is issued.
C30_RelationshipLabelMerge ==
  /\ ex.pc = "failed" => ex.calls = <<>>
  /\ \A k \in DOMAIN ex.calls :
        \A f \in {"amc", "e1", "e2"} :
           LET selected == (f = "amc") = (ex.relationType # "ManyToManyRelationship")
           IN IF ex.calls[k].rel[f] # ex.rel[f]
                 \/ (selected /\ ex.rel[f].present /\ ex.rel[f].labelled)
              THEN MergedAsRequired(ex.rel[f], ex.calls[k].rel[f])
              ELSE TRUE
  /\ ex.pc \in {"updateWait", "resolved"} => Len(ex.calls) = 1

\* an update has gone out for a configuration that had a label of a code of
\* the dictionary, a label of another code, and lacked a code of the
\* dictionary
C30_Witness ==
  /\ ex.pc = "resolved"
  /\ \E f \in {"amc", "e1"} :
        /\ ex.calls[1].rel[f] # ex.rel[f]
        /\ \E i \in DOMAIN ex.rel[f].labels : ex.rel[f].labels[i].code \in DOMAIN ex.labels
        /\ \E i \in DOMAIN ex.rel[f].labels : ex.rel[f].labels[i].code \notin DOMAIN ex.labels
        /\ \E code \in DOMAIN ex.labels :
              \A i \in DOMAIN ex.rel[f].labels : ex.rel[f].labels[i].code # code

====
